---- MODULE Spec2Model ----
(***************************************************************************)
(* Attendance state machine of the Tabel work-time bot.                    *)
(*                                                                         *)
(* The repository holds two variants of the program:                       *)
(*   "bot"  src/main.py      class WorkTimeBot, table time_logs            *)
(*   "app"  src/app/main.py  module-level handlers, table shifts           *)
(* Both are modelled here; the variable  variant  says which one runs.     *)
(*                                                                         *)
(* Conventions                                                             *)
(*   - instants are seconds since 00:00 of day 0 (naive local time);      *)
(*   - SQL NULL / Python None is NULL;                                     *)
(*   - DECIMAL(4,2) / NUMERIC(4,2) hours are stored times Scale;           *)
(*   - points lie on one meridian: lat is the arc length in metres along   *)
(*     it, so the haversine distance of two points is |lat1 - lat2|;       *)
(*   - one handler (one message or callback) is one action; a SELECT with  *)
(*     LIMIT 1 and no ORDER BY returns any matching row;                   *)
(*   - inline keyboards sent earlier stay in the chat, so a callback the   *)
(*     program offers can arrive at any time;                              *)
(*   - Init is the start of the process on the morning of day 0: the FSM   *)
(*     storage is in memory and starts empty, no record of day 0 exists    *)
(*     yet, and the chat holds the keyboards of earlier days.              *)
(***************************************************************************)
EXTENDS Integers, Sequences, FiniteSets, TLC

----------------------------------------------------------------------------
(* Bounds of the model *)

\* the clock advances at most MaxTick times; time_logs gets at most MaxLogs rows
MaxTick == 3
MaxLogs == 2
\* an auto-close run with a failure is checked over at most MaxEmployees employees
MaxEmployees == 3
\* manual_presence_requests gets at most MaxRequests rows
MaxRequests == 1

----------------------------------------------------------------------------
(* Program constants *)

WORK_START_HOUR == 9
MAX_WORK_HOURS == 8
LOCATION_RADIUS == 1000
LOCATION_MAX_AGE_SECONDS == 300
LOCATION_MAX_ACCURACY == 250

NULL == 0 - 1
INF == 10 ^ 9
Scale == 10 * 10
Hour == 60 * 60
Day == 24 * Hour

\* cron triggers of the scheduler, as seconds of the day
AUTO_CHECKOUT_AT == 20 * Hour
FORCE_CHECKOUT_AT == 23 * Hour + 59 * 60
AUTOCLOSE_AT == 23 * Hour + 59 * 60
\* a job whose start is at most this late is still run (APScheduler default)
MisfireGrace == 0 + 1

\* the instants of a day at which something is observed to happen: the start
\* of work, the 20:00 job, half an hour before midnight, and the 23:59 jobs
\* started late within the grace time
DayInstants ==
    << WORK_START_HOUR * Hour, AUTO_CHECKOUT_AT, 23 * Hour + 30 * 60,
       FORCE_CHECKOUT_AT + MisfireGrace >>

\* the i-th observed instant, counted from the first one of day 0
InstantAt(i) == (i \div Len(DayInstants)) * Day + DayInstants[(i % Len(DayInstants)) + 1]
Instants == { InstantAt(i) : i \in 0..MaxTick }

Users == { 1 }
\* telegram ids of the administrators who resolve manual requests
Admins == { 101, 102 }
\* no approve/reject callback of this admin is in flight
NoCall == [ op |-> "none", req |-> NULL ]
\* no callback query is waiting to be handled
NoCallback == [ from_user |-> NULL, op |-> "none", arg |-> NULL ]
\* a datetime: whole seconds since 00:00 of day 0 and the sub-second part
DateTime(s, us) == [ s |-> s, us |-> us ]
\* no close of a shift is under examination
NoClose == [ check_in |-> DateTime(0, 0), at |-> DateTime(0, 0), path |-> "none", hours |-> NULL ]
Objects == { 1 }
\* bot: an object stored without coordinates, which no employee of Users
\* is sent to
UnlocatedObjects == { 2 }
AllObjects == Objects \cup UnlocatedObjects
\* objects / radius of the two variants; object 1 lies at lat 5000 on meridian 1
ObjLat(o) == IF o \in UnlocatedObjects THEN NULL ELSE 50 * Scale
ObjLon(o) == IF o \in UnlocatedObjects THEN NULL ELSE 0 + 1
ObjRadiusM(o) == 2 * Scale

\* location messages a client can send: near the object and fresh, far from
\* it, with a coarse fix, and with an old fix
Loc(lat, accuracy, age) ==
    [ lat |-> lat, lon |-> ObjLon(1), accuracy |-> accuracy, age |-> age ]
Locations ==
    { Loc(ObjLat(1) + Scale, 50, 0),
      Loc(ObjLat(1) + 20 * Scale, 50, 0),
      Loc(ObjLat(1) + Scale, 20 * Scale, 0),
      Loc(ObjLat(1) + Scale, 50, LOCATION_MAX_AGE_SECONDS + Scale) }

\* the same with the fixes at the edge of the geofence: a fresh, accurate fix
\* at the radius of the object and one metre past it, and one on the equator
\* (latitude 0)
GeoLocations ==
    Locations \cup
      { Loc(ObjLat(1) + ObjRadiusM(1), 50, 0),
        Loc(ObjLat(1) + ObjRadiusM(1) + 1, 50, 0),
        Loc(0, 50, 0) }

----------------------------------------------------------------------------
VARIABLES
    variant,        \* "bot" or "app"
    GEO_REQUIRED,   \* Config.GEO_REQUIRED / GEO_REQUIRED, fixed at start
    now,            \* the clock
    employees,      \* bot: table employees, by telegram_id
    time_logs,      \* bot: table time_logs, a set of rows
    next_id,        \* bot: next value of the SERIAL time_logs.id
    fsm,            \* bot: FSM state and data of each user
    users,          \* app: table users, by tg_id
    shifts,         \* app: table shifts, a set of rows
    manual_presence_requests,  \* bot: table manual_presence_requests, a set of rows
    admin_calls,    \* bot: per admin, the approve/reject callback in flight
    closing,        \* bot: a close of a shift with its datetimes to the sub-second
    access_requests,  \* bot: table access_requests, a set of rows
    requesting,     \* bot: the users in state waiting_for_employee_name, action request_access
    callback_query  \* the callback query the dispatcher has received and not yet handled

\* the manual presence workflow: the request table and the admin callbacks
\* that have read a request and not yet written their decision
manual == << manual_presence_requests, admin_calls >>

\* the access workflow: the request table, the users entering a request and
\* the callback query in flight
access == << access_requests, requesting, callback_query >>

vars == << variant, GEO_REQUIRED, now, employees, time_logs, next_id,
           fsm, users, shifts, manual_presence_requests, admin_calls, closing,
           access_requests, requesting, callback_query >>

----------------------------------------------------------------------------
(* Helpers *)

Min(a, b) == IF a < b THEN a ELSE b
Max(a, b) == IF a > b THEN a ELSE b
Abs(a) == IF a < 0 THEN 0 - a ELSE a

\* ceil(x / d) of Python's math.ceil on a real quotient, d > 0
Ceil(x, d) == IF x >= 0 THEN (x + d - 1) \div d ELSE 0 - ((0 - x) \div d)

\* datetime.date() of an instant
DateOf(t) == t \div Day
moscow_today == DateOf(now)
today == DateOf(now)

\* is_working_day: date.weekday() < 5; day 0 is a Friday, holidays apart
is_working_day(d) == (d + 4) % 7 < 5

\* haversine on one meridian
Haversine(lat1, lon1, lat2, lon2) == Abs(lat1 - lat2)

\* calculate_distance: infinity when any coordinate is falsy (None or 0)
calculate_distance(lat1, lon1, lat2, lon2) ==
    IF \E c \in { lat1, lon1, lat2, lon2 } : c = NULL \/ c = 0
    THEN INF
    ELSE Haversine(lat1, lon1, lat2, lon2)

\* haversine_m of the app
haversine_m(lat1, lon1, lat2, lon2) == Haversine(lat1, lon1, lat2, lon2)

\* min(max(0, math.ceil(seconds / 3600)), MAX_WORK_HOURS), stored times Scale
HoursCeil(seconds) == Scale * Min(Max(0, Ceil(seconds, Hour)), MAX_WORK_HOURS)

\* timedelta.seconds: the seconds component, days dropped
TimedeltaSeconds(delta) == delta % Day

\* round_up_half_hour(h) = ceil(h * 2) / 2 and calc_hours, stored times Scale
round_up_half_hour(seconds) == (Scale \div 2) * Ceil(seconds, Hour \div 2)
calc_hours(start_ts, end_ts) ==
    Min(MAX_WORK_HOURS * Scale, round_up_half_hour(Max(0, end_ts - start_ts)))

----------------------------------------------------------------------------
(* bot: tables and FSM *)

NoData == [ state |-> "none", action |-> "none", log_id |-> NULL,
            selected_object_id |-> NULL, user_id |-> NULL,
            lat |-> NULL, lon |-> NULL ]

\* state.clear()
StateClear(u) == [ fsm EXCEPT ![u] = NoData ]

\* a row as INSERT leaves it: hours_worked DEFAULT 0, other columns NULL
NewLog(id, emp, obj, d, ci, lat, lon, st) ==
    [ id |-> id, employee_id |-> emp, object_id |-> obj, date |-> d,
      check_in |-> ci, check_out |-> NULL,
      check_in_lat |-> lat, check_in_lon |-> lon,
      check_out_lat |-> NULL, check_out_lon |-> NULL,
      hours_worked |-> 0, status |-> st ]

\* check_access(user_id, need_admin)
check_access(u, need_admin) ==
    /\ u \in DOMAIN employees
    /\ employees[u].is_active
    /\ IF need_admin
       THEN employees[u].is_admin /\ employees[u].is_approved
       ELSE employees[u].is_approved

\* rows of time_logs WHERE employee_id = (id of u) AND date = d
LogsOf(u, d) == { r \in time_logs : r.employee_id = u /\ r.date = d }

sick_today(u) == \E r \in LogsOf(u, moscow_today) : r.status = "sick"
working_today(u) == \E r \in LogsOf(u, moscow_today) : r.check_in # NULL

----------------------------------------------------------------------------
Init ==
    /\ variant \in { "bot", "app" }
    /\ GEO_REQUIRED \in BOOLEAN
    /\ now = DayInstants[1]
    /\ employees = [ u \in Users |->
                       [ is_admin |-> FALSE, is_active |-> TRUE, is_approved |-> TRUE ] ]
    /\ time_logs = {}
    /\ next_id = 1
    /\ fsm = [ u \in Users |-> NoData ]
    /\ users = [ u \in Users |-> [ role |-> "employee", approved |-> TRUE ] ]
    /\ shifts = {}
    /\ manual_presence_requests = {}
    /\ admin_calls = [ a \in Admins |-> NoCall ]
    /\ closing = NoClose
    /\ access_requests = {}
    /\ requesting = {}
    /\ callback_query = NoCallback

\* the scheduler starts a job at its cron time, or late within the grace time
DueAt(at, t) == (t % Day) >= at /\ (t % Day) <= at + MisfireGrace
JobDue(at) == DueAt(at, now)

\* the clock advances to the next observed instant
Tick ==
    /\ \E t \in Instants :
         /\ t > now
         /\ \A s \in Instants : s > now => t <= s
         /\ now' = t
    /\ UNCHANGED << variant, GEO_REQUIRED, employees, time_logs, next_id, fsm,
                    users, shifts >>
    /\ UNCHANGED << manual, closing, access >>

----------------------------------------------------------------------------
(* bot: handlers of src/main.py *)

\* show_objects(message, state, action): the inline keyboard of the objects
show_objects(u, f, action) ==
    IF Objects = {}
    THEN fsm' = [ f EXCEPT ![u] = NoData ]
    ELSE fsm' = [ f EXCEPT ![u].action = action ]

\* SELECT check_in FROM time_logs WHERE employee, date LIMIT 1
ExistingCheckIn(u) ==
    IF LogsOf(u, moscow_today) = {} THEN { NULL }
    ELSE { r.check_in : r \in LogsOf(u, moscow_today) }

\* "Пришел"
handle_come(u) ==
    /\ variant = "bot"
    /\ \E existing \in ExistingCheckIn(u) :
         IF /\ check_access(u, FALSE)
            /\ ~employees[u].is_admin
            /\ ~sick_today(u)
            /\ existing = NULL
         THEN show_objects(u, [ fsm EXCEPT ![u].state = "waiting_for_location",
                                           ![u].action = "checkin" ], "checkin")
         ELSE UNCHANGED fsm
    /\ UNCHANGED << variant, GEO_REQUIRED, now, employees, time_logs,
                    next_id, users, shifts >>
    /\ UNCHANGED << manual, closing, access >>

\* "Ушел"
handle_leave(u) ==
    /\ variant = "bot"
    /\ LET open == { r \in LogsOf(u, moscow_today) : r.check_out = NULL } IN
       IF ~check_access(u, FALSE) \/ employees[u].is_admin
       THEN UNCHANGED fsm
       ELSE IF sick_today(u) \/ open = {}
       THEN fsm' = StateClear(u)
       ELSE \E log \in open :
              show_objects(u, [ fsm EXCEPT ![u].state = "waiting_for_location",
                                          ![u].action = "checkout",
                                          ![u].log_id = log.id ], "checkout")
    /\ UNCHANGED << variant, GEO_REQUIRED, now, employees, time_logs,
                    next_id, users, shifts >>
    /\ UNCHANGED << manual, closing, access >>

\* "Отмена" and return_to_main_menu
handle_cancel(u) ==
    /\ variant = "bot"
    /\ fsm' = StateClear(u)
    /\ UNCHANGED << variant, GEO_REQUIRED, now, employees, time_logs,
                    next_id, users, shifts >>
    /\ UNCHANGED << manual, closing, access >>

\* "Болел"
handle_sick_btn(u) ==
    /\ variant = "bot"
    /\ IF check_access(u, FALSE) /\ ~working_today(u) /\ ~sick_today(u)
       THEN fsm' = [ fsm EXCEPT ![u].user_id = u ]
       ELSE UNCHANGED fsm
    /\ UNCHANGED << variant, GEO_REQUIRED, now, employees, time_logs,
                    next_id, users, shifts >>
    /\ UNCHANGED << manual, closing, access >>

\* "Выбрать объект"
handle_select_object_btn(u) ==
    /\ variant = "bot"
    /\ IF check_access(u, FALSE) /\ ~employees[u].is_admin
       THEN show_objects(u, fsm, "select")
       ELSE UNCHANGED fsm
    /\ UNCHANGED << variant, GEO_REQUIRED, now, employees, time_logs,
                    next_id, users, shifts >>
    /\ UNCHANGED << manual, closing, access >>

\* handle_callback, data "sick_confirm" / "sick_cancel"
handle_callback_sick(u, data) ==
    /\ variant = "bot"
    /\ IF data = "sick_confirm"
       THEN fsm' = [ fsm EXCEPT ![u].state = "waiting_for_sick_reason" ]
       ELSE fsm' = StateClear(u)
    /\ UNCHANGED << variant, GEO_REQUIRED, now, employees, time_logs,
                    next_id, users, shifts >>
    /\ UNCHANGED << manual, closing, access >>

\* status of a check-in made now: late after WORK_START_HOUR:15
CheckinStatus(t) ==
    IF t > DateOf(t) * Day + WORK_START_HOUR * Hour + 15 * 60 THEN "late" ELSE "work"

\* process_checkin_manual: the table after the INSERT
process_checkin_manual(u, obj, lat, lon) ==
    time_logs \cup
      { NewLog(next_id, u, obj, DateOf(now), now, lat, lon, CheckinStatus(now)) }

\* hours of process_checkout_manual for the row log_id
CheckoutHours(log_id) ==
    LET rows == { r \in time_logs : r.id = log_id }
        check_in == IF rows = {} THEN NULL ELSE (CHOOSE r \in rows : TRUE).check_in
    IN  IF check_in = NULL THEN HoursCeil(0) ELSE HoursCeil(now - check_in)

\* process_checkout_manual: the table after the UPDATE ... WHERE id = log_id
process_checkout_manual(log_id, obj, lat, lon) ==
    { IF r.id = log_id
      THEN [ r EXCEPT !.check_out = now, !.check_out_lat = lat,
                      !.check_out_lon = lon,
                      !.hours_worked = CheckoutHours(log_id),
                      !.object_id = obj ]
      ELSE r : r \in time_logs }

\* process_checkout_with_location: needs the row and its employee
process_checkout_with_location(log_id, obj, lat, lon) ==
    IF log_id = NULL
       \/ ~ \E r \in time_logs : r.id = log_id /\ r.employee_id \in DOMAIN employees
    THEN time_logs
    ELSE process_checkout_manual(log_id, obj, lat, lon)

\* handle_object_selection, callback data obj_<id>_<action>
handle_object_selection(u, obj, action) ==
    /\ variant = "bot"
    /\ obj \in AllObjects
    /\ CASE action = "checkin" /\ GEO_REQUIRED ->
              /\ fsm' = [ fsm EXCEPT ![u].selected_object_id = obj,
                                     ![u].state = "waiting_for_location" ]
              /\ UNCHANGED << time_logs, next_id >>
         [] action = "checkin" /\ ~GEO_REQUIRED ->
              /\ next_id <= MaxLogs
              /\ time_logs' = process_checkin_manual(u, obj, fsm[u].lat, fsm[u].lon)
              /\ next_id' = next_id + 1
              /\ fsm' = StateClear(u)
         [] action = "checkout" /\ fsm[u].log_id = NULL ->
              UNCHANGED << fsm, time_logs, next_id >>
         [] action = "checkout" /\ fsm[u].log_id # NULL /\ GEO_REQUIRED ->
              /\ fsm' = [ fsm EXCEPT ![u].selected_object_id = obj,
                                     ![u].state = "waiting_for_location" ]
              /\ UNCHANGED << time_logs, next_id >>
         [] action = "checkout" /\ fsm[u].log_id # NULL /\ ~GEO_REQUIRED ->
              /\ time_logs' = process_checkout_manual(fsm[u].log_id, obj,
                                                      fsm[u].lat, fsm[u].lon)
              /\ fsm' = StateClear(u)
              /\ UNCHANGED next_id
         [] OTHER ->
              /\ fsm' = [ fsm EXCEPT ![u].selected_object_id = obj ]
              /\ UNCHANGED << time_logs, next_id >>
    /\ UNCHANGED << variant, GEO_REQUIRED, now, employees, users,
                    shifts >>
    /\ UNCHANGED << manual, closing, access >>

\* handle_location: the object the message is checked against
\* (the selected one, else the nearest object that has coordinates)
TargetObjects(u, loc) ==
    IF fsm[u].selected_object_id # NULL
    THEN { o \in AllObjects : o = fsm[u].selected_object_id }
    ELSE { o \in Objects :
             /\ ObjLat(o) # NULL /\ ObjLat(o) # 0 /\ ObjLon(o) # NULL /\ ObjLon(o) # 0
             /\ calculate_distance(loc.lat, loc.lon, ObjLat(o), ObjLon(o)) < INF
             /\ \A p \in Objects :
                  calculate_distance(loc.lat, loc.lon, ObjLat(o), ObjLon(o))
                    <= calculate_distance(loc.lat, loc.lon, ObjLat(p), ObjLon(p)) }

\* distance = None for an object without coordinates
LocDistance(loc, o) ==
    IF ObjLat(o) # NULL /\ ObjLat(o) # 0 /\ ObjLon(o) # NULL /\ ObjLon(o) # 0
    THEN calculate_distance(loc.lat, loc.lon, ObjLat(o), ObjLon(o))
    ELSE NULL

\* suspicious_reasons is not empty
Suspicious(loc) ==
    \/ loc.age > LOCATION_MAX_AGE_SECONDS
    \/ /\ loc.accuracy # NULL /\ loc.accuracy # 0
       /\ loc.accuracy > Max(LOCATION_RADIUS, LOCATION_MAX_ACCURACY)

\* a handler without the distance test of lines 1592-1610
TooFarNever(distance) == FALSE

\* distance is not None and distance != inf and distance > LOCATION_RADIUS
TooFar(distance) ==
    distance # NULL /\ distance # INF /\ distance > LOCATION_RADIUS

\* a location message
handle_location(u, loc) ==
    /\ variant = "bot"
    /\ IF fsm[u].action = "none"
       THEN /\ fsm' = StateClear(u)
            /\ UNCHANGED << time_logs, next_id >>
       ELSE IF TargetObjects(u, loc) = {}
       THEN /\ show_objects(u, [ fsm EXCEPT ![u].lat = loc.lat, ![u].lon = loc.lon ],
                            fsm[u].action)
            /\ UNCHANGED << time_logs, next_id >>
       ELSE \E target \in TargetObjects(u, loc) :
         LET distance == LocDistance(loc, target) IN
         IF Suspicious(loc) \/ TooFar(distance)
         THEN /\ fsm' = [ fsm EXCEPT ![u].selected_object_id = target,
                                     ![u].state = "waiting_for_location" ]
              /\ UNCHANGED << time_logs, next_id >>
         ELSE CASE fsm[u].action = "checkin" ->
                     /\ next_id <= MaxLogs
                     /\ time_logs' = process_checkin_manual(u, target, loc.lat, loc.lon)
                     /\ next_id' = next_id + 1
                     /\ fsm' = StateClear(u)
                       [] fsm[u].action = "checkout" ->
                     /\ time_logs' = process_checkout_with_location(
                                        fsm[u].log_id, target, loc.lat, loc.lon)
                     /\ fsm' = StateClear(u)
                     /\ UNCHANGED next_id
                [] OTHER ->
                     UNCHANGED << fsm, time_logs, next_id >>
    /\ UNCHANGED << variant, GEO_REQUIRED, now, employees, users, shifts >>
    /\ UNCHANGED << manual, closing, access >>

\* a text message in state waiting_for_sick_reason
process_sick_reason(u) ==
    /\ variant = "bot"
    /\ fsm[u].state = "waiting_for_sick_reason"
    /\ LET user_id == fsm[u].user_id IN
       IF user_id # NULL /\ working_today(user_id)
       THEN UNCHANGED << time_logs, next_id >>
       ELSE /\ next_id <= MaxLogs
            /\ time_logs' = time_logs \cup
                 { NewLog(next_id, user_id, NULL, today, NULL, NULL, NULL, "sick") }
            /\ next_id' = next_id + 1
    /\ fsm' = StateClear(u)
    /\ UNCHANGED << variant, GEO_REQUIRED, now, employees, users,
                    shifts >>
    /\ UNCHANGED << manual, closing, access >>

\* "Снять больничный"
handle_sick_clear(u) ==
    /\ variant = "bot"
    /\ LET sick == { r \in LogsOf(u, moscow_today) : r.status = "sick" } IN
       IF ~check_access(u, FALSE) \/ sick = {}
       THEN UNCHANGED << time_logs, fsm >>
       ELSE \E r \in sick :
              /\ time_logs' = { x \in time_logs : x.id # r.id }
              /\ fsm' = StateClear(u)
    /\ UNCHANGED << variant, GEO_REQUIRED, now, employees, next_id,
                    users, shifts >>
    /\ UNCHANGED << manual, closing, access >>

\* a selection of the auto-close jobs that forgets  check_out IS NULL
OpenLogsAnyCheckOut(logs, t) ==
    { r \in logs : /\ r.employee_id \in DOMAIN employees
                   /\ r.date = DateOf(t)
                   /\ r.check_in # NULL }

\* rows both auto-close jobs select at instant t: the open shifts of that
\* date, joined with employees
OpenLogs(logs, t) ==
    { r \in logs : /\ r.employee_id \in DOMAIN employees
                   /\ r.date = DateOf(t)
                   /\ r.check_in # NULL
                   /\ r.check_out = NULL }

\* auto_checkout run at instant t: the table it leaves
auto_checkout_run(logs, t) ==
    IF ~is_working_day(DateOf(t))
    THEN logs
    ELSE { IF r \in OpenLogs(logs, t)
           THEN [ r EXCEPT !.check_out = t,
                           !.hours_worked = HoursCeil(TimedeltaSeconds(t - r.check_in)) ]
           ELSE r : r \in logs }

\* force_checkout_end_of_day run at instant t: the table it leaves
force_checkout_run(logs, t) ==
    LET cutoff == DateOf(t) * Day + FORCE_CHECKOUT_AT IN
    { IF r \in OpenLogs(logs, t)
      THEN [ r EXCEPT !.check_out = cutoff,
                      !.hours_worked = HoursCeil(cutoff - r.check_in) ]
      ELSE r : r \in logs }

\* auto_checkout, the 20:00 job
auto_checkout ==
    /\ variant = "bot"
    /\ JobDue(AUTO_CHECKOUT_AT)
    /\ time_logs' = auto_checkout_run(time_logs, now)
    /\ UNCHANGED << variant, GEO_REQUIRED, now, employees, next_id,
                    fsm, users, shifts >>
    /\ UNCHANGED << manual, closing, access >>

\* force_checkout_end_of_day, the 23:59 job
force_checkout_end_of_day ==
    /\ variant = "bot"
    /\ JobDue(FORCE_CHECKOUT_AT)
    /\ time_logs' = force_checkout_run(time_logs, now)
    /\ UNCHANGED << variant, GEO_REQUIRED, now, employees, next_id,
                    fsm, users, shifts >>
    /\ UNCHANGED << manual, closing, access >>

NextBot ==
    \/ \E u \in Users : handle_come(u)
    \/ \E u \in Users : handle_leave(u)
    \/ \E u \in Users : handle_cancel(u)
    \/ \E u \in Users : handle_sick_btn(u)
    \/ \E u \in Users : handle_select_object_btn(u)
    \/ \E u \in Users, data \in { "sick_confirm", "sick_cancel" } :
         handle_callback_sick(u, data)
    \/ \E u \in Users, obj \in Objects, action \in { "checkin", "checkout", "select" } :
         handle_object_selection(u, obj, action)
    \/ \E u \in Users, loc \in Locations : handle_location(u, loc)
    \/ \E u \in Users : process_sick_reason(u)
    \/ \E u \in Users : handle_sick_clear(u)
    \/ auto_checkout
    \/ force_checkout_end_of_day

----------------------------------------------------------------------------
(* app: tables and handlers of src/app/main.py *)

\* a row as db_shift_ensure inserts it: status DEFAULT 'work', the rest NULL
NewShift(tg_id, day) ==
    [ tg_id |-> tg_id, day |-> day, object_id |-> NULL,
      start_ts |-> NULL, end_ts |-> NULL,
      start_lat |-> NULL, start_lon |-> NULL, end_lat |-> NULL, end_lon |-> NULL,
      hours |-> NULL, status |-> "work" ]

\* db_shift_get: rows WHERE tg_id AND day
db_shift_get(sh, tg_id, day) == { s \in sh : s.tg_id = tg_id /\ s.day = day }

\* db_shift_ensure: INSERT ... ON CONFLICT (tg_id, day) DO NOTHING
db_shift_ensure(sh, tg_id, day) ==
    IF db_shift_get(sh, tg_id, day) = {} THEN sh \cup { NewShift(tg_id, day) } ELSE sh

\* db_shift_set_object
db_shift_set_object(sh, tg_id, day, object_id) ==
    { IF s.tg_id = tg_id /\ s.day = day THEN [ s EXCEPT !.object_id = object_id ] ELSE s :
        s \in db_shift_ensure(sh, tg_id, day) }

\* db_shift_set_sick(tg_id, day, True)
db_shift_set_sick(sh, tg_id, day) ==
    { IF s.tg_id = tg_id /\ s.day = day
      THEN [ s EXCEPT !.status = "sick", !.hours = NULL,
                      !.start_ts = NULL, !.end_ts = NULL ]
      ELSE s : s \in db_shift_ensure(sh, tg_id, day) }

\* db_shift_start
db_shift_start(sh, tg_id, day, ts, lat, lon) ==
    { IF s.tg_id = tg_id /\ s.day = day
      THEN [ s EXCEPT !.status = "work", !.start_ts = ts, !.end_ts = NULL,
                      !.hours = NULL, !.start_lat = lat, !.start_lon = lon ]
      ELSE s : s \in db_shift_ensure(sh, tg_id, day) }

\* db_shift_end
db_shift_end(sh, tg_id, day, ts, lat, lon, hours) ==
    { IF s.tg_id = tg_id /\ s.day = day
      THEN [ s EXCEPT !.end_ts = ts, !.end_lat = lat, !.end_lon = lon,
                      !.hours = hours ]
      ELSE s : s \in sh }

\* require_approved(db_user_ensure(tg_id))
require_approved(u) == u \in DOMAIN users /\ users[u].approved

\* geo_check_for_today: the first component of its result
geo_check_for_today(tg_id, lat, lon) ==
    \E s \in db_shift_get(shifts, tg_id, today) :
       /\ s.object_id # NULL
       /\ s.object_id \in Objects
       /\ haversine_m(lat, lon, ObjLat(s.object_id), ObjLon(s.object_id))
            <= ObjRadiusM(s.object_id)

\* callback obj:<id>
cb_set_object(u, object_id) ==
    /\ variant = "app"
    /\ IF require_approved(u) /\ object_id \in Objects
       THEN shifts' = db_shift_set_object(shifts, u, today, object_id)
       ELSE UNCHANGED shifts
    /\ UNCHANGED << variant, GEO_REQUIRED, now, employees, time_logs,
                    next_id, fsm, users >>
    /\ UNCHANGED << manual, closing, access >>

\* "Пришел"
arrived(u) ==
    /\ variant = "app"
    /\ LET s == db_shift_get(shifts, u, today) IN
       IF /\ require_approved(u)
          /\ ~ \E x \in s : x.status = "sick"
          /\ \E x \in s : x.object_id # NULL
          /\ ~GEO_REQUIRED
       THEN shifts' = db_shift_start(shifts, u, today, now, NULL, NULL)
       ELSE UNCHANGED shifts
    /\ UNCHANGED << variant, GEO_REQUIRED, now, employees, time_logs,
                    next_id, fsm, users >>
    /\ UNCHANGED << manual, closing, access >>

\* "Ушел"
left(u) ==
    /\ variant = "app"
    /\ LET s == db_shift_get(shifts, u, today) IN
       IF /\ require_approved(u)
          /\ \E x \in s : x.start_ts # NULL
          /\ ~ \E x \in s : x.status = "sick"
          /\ ~GEO_REQUIRED
       THEN \E x \in s :
              /\ shifts' = db_shift_end(shifts, u, today, now, NULL, NULL,
                                        calc_hours(x.start_ts, now))
       ELSE UNCHANGED shifts
    /\ UNCHANGED << variant, GEO_REQUIRED, now, employees, time_logs,
                    next_id, fsm, users >>
    /\ UNCHANGED << manual, closing, access >>

\* a location message
got_location(u, loc) ==
    /\ variant = "app"
    /\ LET s == db_shift_get(shifts, u, today) IN
       IF \/ ~require_approved(u)
          \/ GEO_REQUIRED /\ ~geo_check_for_today(u, loc.lat, loc.lon)
          \/ s = {}
          \/ \E x \in s : x.start_ts # NULL /\ x.end_ts # NULL
       THEN UNCHANGED shifts
       ELSE \E x \in s :
              /\ IF x.start_ts = NULL
                 THEN shifts' = db_shift_start(shifts, u, today, now, loc.lat, loc.lon)
                 ELSE shifts' = db_shift_end(shifts, u, today, now, loc.lat, loc.lon,
                                             calc_hours(x.start_ts, now))
    /\ UNCHANGED << variant, GEO_REQUIRED, now, employees, time_logs,
                    next_id, fsm, users >>
    /\ UNCHANGED << manual, closing, access >>

\* "Болел"
sick(u) ==
    /\ variant = "app"
    /\ IF require_approved(u)
       THEN shifts' = db_shift_set_sick(shifts, u, today)
       ELSE UNCHANGED shifts
    /\ UNCHANGED << variant, GEO_REQUIRED, now, employees, time_logs,
                    next_id, fsm, users >>
    /\ UNCHANGED << manual, closing, access >>

\* rows scheduled_autoclose_job selects at instant t
OpenShifts(sh, t) ==
    { s \in sh : /\ s.day = DateOf(t) /\ s.status = "work"
                 /\ s.start_ts # NULL /\ s.end_ts = NULL }

\* scheduled_autoclose_job run at instant t: the table it leaves
autoclose_run(sh, t) ==
    LET end_ts == DateOf(t) * Day + AUTOCLOSE_AT IN
    { IF s \in OpenShifts(sh, t)
      THEN [ s EXCEPT !.end_ts = end_ts, !.end_lat = NULL, !.end_lon = NULL,
                      !.hours = calc_hours(s.start_ts, end_ts) ]
      ELSE s : s \in sh }

\* scheduled_autoclose_job, the 23:59 job
scheduled_autoclose_job ==
    /\ variant = "app"
    /\ JobDue(AUTOCLOSE_AT)
    /\ shifts' = autoclose_run(shifts, now)
    /\ UNCHANGED << variant, GEO_REQUIRED, now, employees, time_logs,
                    next_id, fsm, users >>
    /\ UNCHANGED << manual, closing, access >>

NextApp ==
    \/ \E u \in Users, object_id \in Objects : cb_set_object(u, object_id)
    \/ \E u \in Users : arrived(u)
    \/ \E u \in Users : left(u)
    \/ \E u \in Users, loc \in Locations : got_location(u, loc)
    \/ \E u \in Users : sick(u)
    \/ scheduled_autoclose_job

----------------------------------------------------------------------------
Next == Tick \/ NextBot \/ NextApp

Spec == Init /\ [][Next]_vars

\* the program with the location messages at the edge of the geofence
NextGeo ==
    \/ Next
    \/ \E u \in Users, loc \in GeoLocations : handle_location(u, loc)
    \/ \E u \in Users, loc \in GeoLocations : got_location(u, loc)

SpecGeo == Init /\ [][NextGeo]_vars

InitBot == Init /\ variant = "bot"
SpecBot == InitBot /\ [][Tick \/ NextBot]_vars

InitApp == Init /\ variant = "app"
SpecApp == InitApp /\ [][Tick \/ NextApp]_vars

----------------------------------------------------------------------------
(* The operations of the attendance engine, as the handlers that serve them *)

\* today's record of u carries a check-in / is marked sick / is open
CheckedInToday(u) ==
    IF variant = "bot" THEN working_today(u)
    ELSE \E s \in db_shift_get(shifts, u, today) : s.start_ts # NULL
SickToday(u) ==
    IF variant = "bot" THEN sick_today(u)
    ELSE \E s \in db_shift_get(shifts, u, today) : s.status = "sick"
OpenToday(u) ==
    IF variant = "bot"
    THEN \E r \in LogsOf(u, moscow_today) : r.check_in # NULL /\ r.check_out = NULL
    ELSE \E s \in db_shift_get(shifts, u, today) : s.start_ts # NULL /\ s.end_ts = NULL

\* a check-in request of u: the button, or the object selection or location
\* message that commits it
CheckInRequest(u) ==
    \/ handle_come(u)
    \/ \E obj \in Objects : handle_object_selection(u, obj, "checkin")
    \/ fsm[u].action = "checkin" /\ \E loc \in Locations : handle_location(u, loc)
    \/ arrived(u)
    \/ ~CheckedInToday(u) /\ \E loc \in Locations : got_location(u, loc)

\* a check-out request of u, likewise
CheckOutRequest(u) ==
    \/ handle_leave(u)
    \/ \E obj \in Objects : handle_object_selection(u, obj, "checkout")
    \/ fsm[u].action = "checkout" /\ \E loc \in Locations : handle_location(u, loc)
    \/ left(u)
    \/ CheckedInToday(u) /\ \E loc \in Locations : got_location(u, loc)

\* a sick-mark request of u: the button and the message that commits it
MarkSickRequest(u) == handle_sick_btn(u) \/ process_sick_reason(u) \/ sick(u)

\* the check-in and check-out timestamps the stores hold
Stamps ==
    { << r.id, r.check_in, r.check_out >> : r \in time_logs }
      \cup { << s.tg_id, s.day, s.start_ts, s.end_ts >> : s \in shifts }

\* the records the store holds of u for today
TodayRecords(u) ==
    IF variant = "bot" THEN LogsOf(u, moscow_today) ELSE db_shift_get(shifts, u, today)

----------------------------------------------------------------------------
(* Claims *)

\* C1: for every employee and every date the store holds at most one shift
\* record, whatever operations ran.
C1_Uniqueness ==
    /\ \A r1, r2 \in time_logs :
         (r1.employee_id = r2.employee_id /\ r1.date = r2.date) => r1 = r2
    /\ \A s1, s2 \in shifts :
         (s1.tg_id = s2.tg_id /\ s1.day = s2.day) => s1 = s2

\* C2: a check-in request of an employee whose record of today already has a
\* check-in leaves the store unchanged, whichever handler commits it: the
\* check-in is not overwritten and no second one is written.
C2_AlreadyCheckedIn ==
    [][ \A u \in Users :
          (CheckedInToday(u) /\ CheckInRequest(u))
            => (time_logs' = time_logs /\ shifts' = shifts) ]_vars

\* C3: a check-out request of an employee whose record of today is not open
\* (no check-in, or a check-out already) leaves the store unchanged, so the
\* check-out and hours of a closed shift are not rewritten.
C3_NoOpenCheckIn ==
    [][ \A u \in Users :
          (~OpenToday(u) /\ CheckOutRequest(u))
            => (time_logs' = time_logs /\ shifts' = shifts) ]_vars

\* C4: while today's record of an employee is marked sick, no check-in or
\* check-out request of that employee writes a check-in or check-out
\* timestamp, whichever handler commits the request.
C4_BlockedBySick ==
    [][ \A u \in Users :
          (SickToday(u) /\ (CheckInRequest(u) \/ CheckOutRequest(u)))
            => Stamps' = Stamps ]_vars

\* C5: a sick-mark request leaves the store unchanged when today already has
\* a check-in or is already marked sick; otherwise, once committed, it leaves
\* exactly one record of today, with status sick.
C5_MarkSick ==
    [][ \A u \in Users :
          MarkSickRequest(u) =>
            IF CheckedInToday(u) \/ SickToday(u)
            THEN time_logs' = time_logs /\ shifts' = shifts
            ELSE (process_sick_reason(u) \/ sick(u)) =>
                   \E r \in TodayRecords(u)' :
                      TodayRecords(u)' = { r } /\ r.status = "sick" ]_vars

\* C6: a record with status sick has its check-in and check-out timestamps
\* and its check-in and check-out coordinates all null.
C6_SickExclusive ==
    /\ \A r \in time_logs :
         r.status = "sick" =>
           /\ r.check_in = NULL /\ r.check_out = NULL
           /\ r.check_in_lat = NULL /\ r.check_in_lon = NULL
           /\ r.check_out_lat = NULL /\ r.check_out_lon = NULL
    /\ \A s \in shifts :
         s.status = "sick" =>
           /\ s.start_ts = NULL /\ s.end_ts = NULL
           /\ s.start_lat = NULL /\ s.start_lon = NULL
           /\ s.end_lat = NULL /\ s.end_lon = NULL

\* C7: a sick-clear request changes nothing when today is not marked sick;
\* otherwise it leaves the employee with no record of today: not sick, and
\* with no check-in that would refuse the next check-in.
C7_ClearSick ==
    [][ \A u \in Users :
          handle_sick_clear(u) =>
            IF ~SickToday(u)
            THEN time_logs' = time_logs
            ELSE TodayRecords(u)' = {} ]_vars

\* C8: every closed shift has its check-out not before its check-in and
\* stored hours between 0 and MAX_WORK_HOURS, whichever operation closed it.
C8_MonotonicTime ==
    /\ \A r \in time_logs :
         (r.check_in # NULL /\ r.check_out # NULL) =>
           /\ r.check_out >= r.check_in
           /\ 0 <= r.hours_worked /\ r.hours_worked <= MAX_WORK_HOURS * Scale
    /\ \A s \in shifts :
         (s.start_ts # NULL /\ s.end_ts # NULL) =>
           /\ s.end_ts >= s.start_ts
           /\ 0 <= s.hours /\ s.hours <= MAX_WORK_HOURS * Scale

\* C9: hours is null exactly while the check-out is null: no record has a
\* check-out without hours, and none carries hours before its check-out.
C9_HoursIffCheckOut ==
    /\ \A r \in time_logs : (r.hours_worked = NULL) <=> (r.check_out = NULL)
    /\ \A s \in shifts : (s.hours = NULL) <=> (s.end_ts = NULL)

\* the auto-close jobs of the bot, by name, run on a table at an instant
BotJobs == { "auto_checkout", "force_checkout_end_of_day" }
BotJobAt(job) == IF job = "auto_checkout" THEN AUTO_CHECKOUT_AT ELSE FORCE_CHECKOUT_AT
BotJobRun(job, logs, t) ==
    IF job = "auto_checkout" THEN auto_checkout_run(logs, t)
    ELSE force_checkout_run(logs, t)

\* C10: when an auto-close job that is due now closes open shifts, another
\* invocation of an auto-close job, at the same instant or any later one at
\* which it is due, leaves every record the first one closed exactly as the
\* first one left it (check-out, hours, status and coordinates).
C10_IdempotentAutoClose ==
    /\ \A j1 \in BotJobs, j2 \in BotJobs, t2 \in Instants :
         (variant = "bot" /\ JobDue(BotJobAt(j1)) /\ t2 >= now /\ DueAt(BotJobAt(j2), t2)) =>
           LET first == BotJobRun(j1, time_logs, now) IN
           \A r \in first \ time_logs : r \in BotJobRun(j2, first, t2)
    /\ \A t2 \in Instants :
         (variant = "app" /\ JobDue(AUTOCLOSE_AT) /\ t2 >= now /\ DueAt(AUTOCLOSE_AT, t2)) =>
           LET first == autoclose_run(shifts, now) IN
           \A s \in first \ shifts : s \in autoclose_run(first, t2)

\* a forced close has run (no handler writes the cut-off 23:59:00 as a
\* check-out) and the job is still due, so it can be invoked again
C10_Closed_JobStillDue ==
    /\ variant = "bot"
    /\ JobDue(FORCE_CHECKOUT_AT)
    /\ \E r \in time_logs :
         /\ r.check_in # NULL /\ r.check_in < r.check_out
         /\ r.check_out = DateOf(now) * Day + FORCE_CHECKOUT_AT

\* a step that closes shifts: a check-out request or one of the auto-close jobs
CloseStep ==
    \/ \E u \in Users : CheckOutRequest(u)
    \/ auto_checkout
    \/ force_checkout_end_of_day
    \/ scheduled_autoclose_job

\* C11: a close that arrives after another close of the same shift is a
\* no-op: a closing step leaves the check-out and the hours of every record
\* that is already closed as the first close wrote them.
C11_SecondCloseNoOp ==
    [][ CloseStep =>
          /\ \A r \in time_logs :
               r.check_out # NULL =>
                 \E q \in time_logs' :
                    /\ q.id = r.id /\ q.check_out = r.check_out
                    /\ q.hours_worked = r.hours_worked
          /\ \A s \in shifts :
               s.end_ts # NULL =>
                 \E q \in shifts' :
                    /\ q.tg_id = s.tg_id /\ q.day = s.day
                    /\ q.end_ts = s.end_ts /\ q.hours = s.hours ]_vars

\* C12: requests of one employee behave as if serialized, so whatever way
\* their guard and write steps interleave, a day of an employee has at most
\* one record with a check-in and is never both worked and sick.
C12_AsIfSerialized ==
    /\ \A r1, r2 \in time_logs :
         (/\ r1.employee_id = r2.employee_id /\ r1.date = r2.date
          /\ r1.employee_id # NULL /\ r1.id # r2.id)
           => /\ ~(r1.check_in # NULL /\ r2.check_in # NULL)
              /\ ~(r1.check_in # NULL /\ r2.status = "sick")
    /\ \A r \in time_logs : ~(r.check_in # NULL /\ r.status = "sick")
    /\ \A s \in shifts : ~(s.start_ts # NULL /\ s.status = "sick")

\* the dates the clock reaches
Dates == { DateOf(t) : t \in Instants }

\* the state of the record of employee u for date d
RecState(u, d) ==
    IF variant = "bot"
    THEN LET rows == LogsOf(u, d) IN
         IF \E r \in rows : r.check_in # NULL /\ r.check_out = NULL THEN "CheckedIn"
         ELSE IF \E r \in rows : r.check_in # NULL THEN "CheckedOut"
         ELSE IF \E r \in rows : r.status = "sick" THEN "Sick"
         ELSE "NotStarted"
    ELSE LET rows == db_shift_get(shifts, u, d) IN
         IF \E s \in rows : s.status = "sick" THEN "Sick"
         ELSE IF \E s \in rows : s.start_ts # NULL /\ s.end_ts = NULL THEN "CheckedIn"
         ELSE IF \E s \in rows : s.start_ts # NULL THEN "CheckedOut"
         ELSE "NotStarted"

\* the moves of a record state that the state machine has
Moves ==
    { << "NotStarted", "CheckedIn" >>, << "CheckedIn", "CheckedOut" >>,
      << "NotStarted", "Sick" >>, << "Sick", "NotStarted" >> }

\* C13: the record state of an employee and date moves only along
\* NotStarted -> CheckedIn -> CheckedOut, Sick is entered only from
\* NotStarted and left only to NotStarted: no step reopens or resets a closed
\* record, makes a checked-in or closed record sick, or checks in a sick one.
C13_StateMachine ==
    [][ \A u \in Users, d \in Dates :
          \/ RecState(u, d)' = RecState(u, d)
          \/ << RecState(u, d), RecState(u, d)' >> \in Moves ]_vars

\* the site a location message of u is checked against
SiteOf(u, loc) ==
    IF variant = "bot" THEN TargetObjects(u, loc)
    ELSE { s.object_id : s \in db_shift_get(shifts, u, today) } \ { NULL }

\* the great-circle distance of a location message to the centre of site o
DistanceTo(loc, o) == Haversine(loc.lat, loc.lon, ObjLat(o), ObjLon(o))

\* a fix that is neither old nor coarse
FreshAccurate(loc) ==
    loc.age <= LOCATION_MAX_AGE_SECONDS /\ loc.accuracy <= LOCATION_MAX_ACCURACY

\* a location message of u that submits a check-in or check-out which
\* nothing but the geofence can refuse
LocationSubmission(u, loc) ==
    \/ /\ handle_location(u, loc)
       /\ \/ fsm[u].action = "checkin"
          \/ /\ fsm[u].action = "checkout"
             /\ \E r \in time_logs : r.id = fsm[u].log_id /\ r.check_out = NULL
    \/ /\ got_location(u, loc)
       /\ \E s \in db_shift_get(shifts, u, today) : s.end_ts = NULL

\* C14: with geofencing required, a fresh and accurate location submission is
\* accepted (the check-in or check-out is written) if and only if its distance
\* to the site is at most the radius of that site.
C14_GeofenceBoundary ==
    [][ \A u \in Users, loc \in GeoLocations :
          (GEO_REQUIRED /\ FreshAccurate(loc) /\ LocationSubmission(u, loc)) =>
            \A o \in SiteOf(u, loc) :
              (time_logs' # time_logs \/ shifts' # shifts)
                <=> DistanceTo(loc, o) <= ObjRadiusM(o) ]_vars

\* C15: with geofencing required, a check-in or check-out that carries a
\* location is written only if the location lies within the radius of the
\* site, also when the distance helper could not compute the distance.
C15_CommitWithinRadius ==
    [][ \A u \in Users, loc \in GeoLocations :
          (/\ GEO_REQUIRED
           /\ handle_location(u, loc) \/ got_location(u, loc)
           /\ time_logs' # time_logs \/ shifts' # shifts) =>
            \A o \in SiteOf(u, loc) : DistanceTo(loc, o) <= ObjRadiusM(o) ]_vars

\* the geofence refuses the location message loc of u: the fix is old
\* (Stale), coarse (Imprecise) or beyond the radius the handler compares
\* with (TooFar)
GeofenceRejects(u, loc) ==
    IF variant = "bot"
    THEN /\ fsm[u].action # "none"
         /\ \E o \in TargetObjects(u, loc) :
              \/ loc.age > LOCATION_MAX_AGE_SECONDS
              \/ loc.accuracy > Max(LOCATION_RADIUS, LOCATION_MAX_ACCURACY)
              \/ LET d == LocDistance(loc, o)
                 IN  d # NULL /\ d # INF /\ d > LOCATION_RADIUS
    ELSE /\ GEO_REQUIRED
         /\ require_approved(u)
         /\ \E s \in db_shift_get(shifts, u, today) :
              /\ s.object_id # NULL
              /\ haversine_m(loc.lat, loc.lon, ObjLat(s.object_id), ObjLon(s.object_id))
                   > ObjRadiusM(s.object_id)

\* C16: a location message the geofence refuses (too far, stale or imprecise)
\* changes no shift record: a step that changes a shift record is not the
\* handling of a refused location message.
C16_RejectionChangesNothing ==
    [][ \/ UNCHANGED << time_logs, shifts >>
        \/ \A u \in Users, loc \in Locations :
              GeofenceRejects(u, loc)
                => ~(handle_location(u, loc) \/ got_location(u, loc)) ]_vars

\* a check-out is pending on an open record and each kind of refusal is at
\* hand: a fix too far, an old one and a coarse one
C16_RejectionPending ==
    /\ variant = "bot"
    /\ \E u \in Users :
         /\ fsm[u].action = "checkout"
         /\ fsm[u].state = "waiting_for_location"
         /\ fsm[u].selected_object_id # NULL
         /\ \E r \in time_logs : r.id = fsm[u].log_id /\ r.check_out = NULL
         /\ \E loc \in Locations :
              /\ GeofenceRejects(u, loc)
              /\ loc.age <= LOCATION_MAX_AGE_SECONDS /\ loc.accuracy <= LOCATION_MAX_ACCURACY
         /\ \E loc \in Locations : loc.age > LOCATION_MAX_AGE_SECONDS
         /\ \E loc \in Locations :
              loc.accuracy > Max(LOCATION_RADIUS, LOCATION_MAX_ACCURACY)

\* the rows the location handler inserts into location_audit for the message
\* loc of u checked against target: one call of log_location_attempt in the
\* suspicious branch, one before the check-in or check-out is written, none
\* in the branch that answers "too far"
log_location_attempt(u, loc, target) ==
    LET distance == LocDistance(loc, target)
        row(is_suspicious) ==
            [ employee_id |-> u, object_id |-> target, action |-> fsm[u].action,
              latitude |-> loc.lat, longitude |-> loc.lon,
              distance |-> IF distance \in { NULL, INF } THEN NULL ELSE distance,
              accuracy |-> loc.accuracy, is_suspicious |-> is_suspicious ]
    IN  IF Suspicious(loc) THEN << row(TRUE) >>
        ELSE IF TooFar(distance) THEN << >>
        ELSE << row(FALSE) >>

\* C17: every location submission, accepted or rejected, appends exactly one
\* row to the audit table.
C17_OneAuditRowPerSubmission ==
    [][ \A u \in Users, loc \in Locations :
          (handle_location(u, loc) /\ fsm[u].action # "none") =>
            \A target \in TargetObjects(u, loc) :
              Len(log_location_attempt(u, loc, target)) = 1 ]_vars

\* hours between two instants as whole hours rounded up, never negative,
\* capped at the daily maximum
WholeHours(check_in, check_out) ==
    Scale * Min(MAX_WORK_HOURS, Ceil(Max(0, check_out - check_in), Hour))

\* C18: the hours of a closed record are the whole hours between check-in and
\* check-out rounded up, at least 0 and at most MAX_WORK_HOURS.
C18_HoursRoundedUpAndCapped ==
    /\ \A r \in time_logs :
         (r.check_in # NULL /\ r.check_out # NULL)
           => r.hours_worked = WholeHours(r.check_in, r.check_out)
    /\ \A s \in shifts :
         (s.start_ts # NULL /\ s.end_ts # NULL)
           => s.hours = WholeHours(s.start_ts, s.end_ts)

\* C19: a record with a check-in has status late exactly when the check-in is
\* more than 15 minutes after the start of the working day, work otherwise.
C19_LateAfterGrace ==
    /\ \A r \in time_logs :
         (r.check_in # NULL /\ r.status \in { "work", "late" })
           => (r.status = "late"
                 <=> r.check_in > r.date * Day + WORK_START_HOUR * Hour + 15 * 60)
    /\ \A s \in shifts :
         (s.start_ts # NULL /\ s.status \in { "work", "late" })
           => (s.status = "late"
                 <=> s.start_ts > s.day * Day + WORK_START_HOUR * Hour + 15 * 60)

\* a run of one of the auto-close jobs
AutoCloseStep ==
    auto_checkout \/ force_checkout_end_of_day \/ scheduled_autoclose_job

\* the instants an auto-close run may stamp: the run itself or the 23:59 cut-off
AsOf == { now, DateOf(now) * Day + FORCE_CHECKOUT_AT }

\* C20: an auto-close run writes, on the open records it closes, the check-out
\* instant and hours = whole hours from check-in to that instant (rounded up,
\* capped), and nothing else: status, site, check-in and every other record
\* stay as they were and the check-out coordinates stay null.
C20_AutoCloseWritesOnlyCheckOutAndHours ==
    [][ AutoCloseStep =>
          /\ \A r \in time_logs :
               \E q \in time_logs' :
                  /\ q.id = r.id
                  /\ \/ q = r
                     \/ /\ r.check_in # NULL /\ r.check_out = NULL
                        /\ q.check_out \in AsOf
                        /\ q.check_out_lat = NULL /\ q.check_out_lon = NULL
                        /\ q = [ r EXCEPT !.check_out = q.check_out,
                                          !.hours_worked =
                                             WholeHours(r.check_in, q.check_out) ]
          /\ \A s \in shifts :
               \E q \in shifts' :
                  /\ q.tg_id = s.tg_id /\ q.day = s.day
                  /\ \/ q = s
                     \/ /\ s.start_ts # NULL /\ s.end_ts = NULL
                        /\ q.end_ts \in AsOf
                        /\ q.end_lat = NULL /\ q.end_lon = NULL
                        /\ q = [ s EXCEPT !.end_ts = q.end_ts,
                                          !.end_lat = NULL, !.end_lon = NULL,
                                          !.hours = WholeHours(s.start_ts, q.end_ts) ]
      ]_vars

-----------------------------------------------------------------------------
(* the night after the 23:59 job and the 23:59 job of the next day *)

\* half a minute after the 23:59 job of day 0, and the 23:59 job of day 1
LateInstants ==
    { FORCE_CHECKOUT_AT + 30, Day + FORCE_CHECKOUT_AT + MisfireGrace }

\* the 23:59 job due now has run: running it again would change nothing
EndOfDayJobDone ==
    JobDue(FORCE_CHECKOUT_AT) =>
      /\ force_checkout_run(time_logs, now) = time_logs
      /\ autoclose_run(shifts, now) = shifts

\* the clock goes on after the last instant of Instants, once the job that is
\* due has fired
TickLate ==
    /\ \A s \in Instants : s <= now
    /\ EndOfDayJobDone
    /\ \E t \in LateInstants :
         /\ t > now
         /\ \A s \in LateInstants : s > now => t <= s
         /\ now' = t
    /\ UNCHANGED << variant, GEO_REQUIRED, employees, time_logs, next_id, fsm,
                    users, shifts >>
    /\ UNCHANGED << manual, closing, access >>

NextLate == Next \/ TickLate

\* the external clock advances and the 23:59 job of each program fires
\* whenever it is due
FairClock ==
    /\ WF_vars(Tick)
    /\ WF_vars(TickLate)
    /\ WF_vars(force_checkout_end_of_day)
    /\ WF_vars(scheduled_autoclose_job)
SpecFair == Init /\ [][NextLate]_vars /\ FairClock

\* the time_logs row with this id is an open shift
LogOpen(id) ==
    \E r \in time_logs : r.id = id /\ r.check_in # NULL /\ r.check_out = NULL

\* the shifts row of (u, d) is an open shift
ShiftOpen(u, d) ==
    \E s \in shifts : /\ s.tg_id = u /\ s.day = d
                      /\ s.start_ts # NULL /\ s.end_ts = NULL

LateDates == Dates \cup { DateOf(t) : t \in LateInstants }

\* C21: with the end-of-day job firing every day, every shift that is opened
\* is eventually closed, whatever its status and however close to midnight
\* the check-in was.
C21_OpenShiftEventuallyClosed ==
    /\ \A id \in 1..MaxLogs : LogOpen(id) ~> ~LogOpen(id)
    /\ \A u \in Users, d \in LateDates : ShiftOpen(u, d) ~> ~ShiftOpen(u, d)

-----------------------------------------------------------------------------
(* an auto-close run over several employees in which one step fails *)

JobEmployees == 1..MaxEmployees

\* a failure while the run processes one employee: the UPDATE raises, or the
\* notification (send_message) raises
Failures == [ employee : JobEmployees, kind : { "store", "notify" } ]

\* the orders in which a select may return the rows of a set
Orders(rows) ==
    { seq \in [ 1..Cardinality(rows) -> rows ] :
        \A i, j \in 1..Cardinality(rows) : seq[i] = seq[j] => i = j }

\* the loop of auto_checkout (forced = FALSE) and force_checkout_end_of_day
\* (forced = TRUE) over the selected rows: each row is processed inside
\* try/except, so a failure is logged and the loop goes on; the UPDATE comes
\* before the notification
RECURSIVE checkout_loop(_, _, _, _, _)
checkout_loop(logs, rows, t, forced, fail) ==
    IF rows = << >> THEN logs
    ELSE LET log == Head(rows)
             cutoff == DateOf(t) * Day + FORCE_CHECKOUT_AT
             check_out == IF forced THEN cutoff ELSE t
             hours == IF forced THEN HoursCeil(cutoff - log.check_in)
                      ELSE HoursCeil(TimedeltaSeconds(t - log.check_in))
             updated == { IF r.id = log.id
                          THEN [ r EXCEPT !.check_out = check_out,
                                          !.hours_worked = hours ]
                          ELSE r : r \in logs }
         IN  IF fail.kind = "store" /\ fail.employee = log.employee_id
             THEN checkout_loop(logs, Tail(rows), t, forced, fail)
             ELSE checkout_loop(updated, Tail(rows), t, forced, fail)

\* the loop of scheduled_autoclose_job: db_shift_end is awaited outside the
\* try, so its exception leaves the loop and the job; only send_message is
\* inside try/except
RECURSIVE autoclose_loop(_, _, _, _)
autoclose_loop(sh, rows, t, fail) ==
    IF rows = << >> THEN sh
    ELSE LET r == Head(rows)
             end_ts == DateOf(t) * Day + AUTOCLOSE_AT
         IN  IF fail.kind = "store" /\ fail.employee = r.tg_id
             THEN sh
             ELSE autoclose_loop(
                    db_shift_end(sh, r.tg_id, DateOf(t), end_ts, NULL, NULL,
                                 calc_hours(r.start_ts, end_ts)),
                    Tail(rows), t, fail)

\* auto_checkout with the rows selected in this order and this failure
auto_checkout_failing(rows, fail) ==
    /\ variant = "bot"
    /\ JobDue(AUTO_CHECKOUT_AT)
    /\ is_working_day(moscow_today)
    /\ rows \in Orders(OpenLogs(time_logs, now))
    /\ time_logs' = checkout_loop(time_logs, rows, now, FALSE, fail)
    /\ UNCHANGED << variant, GEO_REQUIRED, now, employees, next_id,
                    fsm, users, shifts >>
    /\ UNCHANGED << manual, closing, access >>

\* force_checkout_end_of_day with the rows selected in this order and this failure
force_checkout_failing(rows, fail) ==
    /\ variant = "bot"
    /\ JobDue(FORCE_CHECKOUT_AT)
    /\ rows \in Orders(OpenLogs(time_logs, now))
    /\ time_logs' = checkout_loop(time_logs, rows, now, TRUE, fail)
    /\ UNCHANGED << variant, GEO_REQUIRED, now, employees, next_id,
                    fsm, users, shifts >>
    /\ UNCHANGED << manual, closing, access >>

\* scheduled_autoclose_job with the rows selected in this order and this failure
autoclose_failing(rows, fail) ==
    /\ variant = "app"
    /\ JobDue(AUTOCLOSE_AT)
    /\ rows \in Orders(OpenShifts(shifts, now))
    /\ shifts' = autoclose_loop(shifts, rows, now, fail)
    /\ UNCHANGED << variant, GEO_REQUIRED, now, employees, time_logs,
                    next_id, fsm, users >>
    /\ UNCHANGED << manual, closing, access >>

\* the evening of a day on which some of the employees have checked in, at
\* the start of work or at 20:00, and none has checked out
InitJobs ==
    /\ variant \in { "bot", "app" }
    /\ GEO_REQUIRED = FALSE
    /\ now \in { AUTO_CHECKOUT_AT, FORCE_CHECKOUT_AT + MisfireGrace }
    /\ employees = [ u \in JobEmployees |->
                       [ is_admin |-> FALSE, is_active |-> TRUE, is_approved |-> TRUE ] ]
    /\ users = [ u \in JobEmployees |-> [ role |-> "employee", approved |-> TRUE ] ]
    /\ next_id = MaxEmployees + 1
    /\ fsm = [ u \in Users |-> NoData ]
    /\ manual_presence_requests = {}
    /\ admin_calls = [ a \in Admins |-> NoCall ]
    /\ closing = NoClose
    /\ access_requests = {}
    /\ requesting = {}
    /\ callback_query = NoCallback
    /\ \E ci \in [ JobEmployees -> { NULL, WORK_START_HOUR * Hour, AUTO_CHECKOUT_AT } ] :
         /\ time_logs =
              IF variant = "bot"
              THEN { NewLog(u, u, 1, DateOf(now), ci[u], NULL, NULL, CheckinStatus(ci[u])) :
                       u \in { v \in JobEmployees : ci[v] # NULL } }
              ELSE {}
         /\ shifts =
              IF variant = "app"
              THEN { [ NewShift(u, DateOf(now)) EXCEPT !.object_id = 1, !.start_ts = ci[u] ] :
                       u \in { v \in JobEmployees : ci[v] # NULL } }
              ELSE {}

NextJobs ==
    \/ \E rows \in Orders(OpenLogs(time_logs, now)), fail \in Failures :
         auto_checkout_failing(rows, fail)
    \/ \E rows \in Orders(OpenLogs(time_logs, now)), fail \in Failures :
         force_checkout_failing(rows, fail)
    \/ \E rows \in Orders(OpenShifts(shifts, now)), fail \in Failures :
         autoclose_failing(rows, fail)

SpecJobs == InitJobs /\ [][NextJobs]_vars

\* C22: in an auto-close run, a failure while one employee is processed does
\* not abort the run: the open shift of every other employee the run selected
\* is closed.
C22_FailureDoesNotAbortRun ==
    [][ \A fail \in Failures :
          /\ \A rows \in Orders(OpenLogs(time_logs, now)) :
               (auto_checkout_failing(rows, fail) \/ force_checkout_failing(rows, fail))
                 => \A r \in OpenLogs(time_logs, now) :
                      r.employee_id # fail.employee
                        => \E q \in time_logs' : q.id = r.id /\ q.check_out # NULL
          /\ \A rows \in Orders(OpenShifts(shifts, now)) :
               autoclose_failing(rows, fail)
                 => \A s \in OpenShifts(shifts, now) :
                      s.tg_id # fail.employee
                        => \E q \in shifts' :
                             q.tg_id = s.tg_id /\ q.day = s.day /\ q.end_ts # NULL
      ]_vars

-----------------------------------------------------------------------------
(* bot: the manual presence workflow *)

\* _save_manual_request: the row inserted into manual_presence_requests;
\* requested_at is the instant of the insert
save_manual_request(id, user_id, object_id, action, status, lat, lon, distance, log_id) ==
    [ id |-> id,
      employee_id |-> IF user_id \in DOMAIN employees THEN user_id ELSE NULL,
      object_id |-> object_id, action |-> action, status |-> status,
      latitude |-> lat, longitude |-> lon,
      distance |-> IF distance \in { NULL, INF } THEN NULL ELSE distance,
      log_id |-> log_id, requested_at |-> now,
      admin_id |-> NULL, processed_at |-> NULL ]

\* the employee answers a "too far" rejection with "Не получилось отметить — я
\* на объекте": a pending request is saved with the reported location, and
\* the shift record the request is about becomes manual_pending (created if
\* the employee has none today)
process_manual_photo(u, loc) ==
    /\ variant = "bot"
    /\ UNCHANGED << closing, access >>
    /\ fsm[u].action \in { "checkin", "checkout" }
    /\ fsm[u].state = "waiting_for_location"
    /\ fsm[u].selected_object_id # NULL
    /\ Cardinality(manual_presence_requests) < MaxRequests
    /\ LET object_id == fsm[u].selected_object_id
           distance == LocDistance(loc, object_id)
           action == fsm[u].action
           mine == IF action = "checkout"
                   THEN { r \in time_logs : r.id = fsm[u].log_id }
                   ELSE { r \in time_logs : r.employee_id = u /\ r.date = moscow_today }
       IN  /\ TooFar(distance)
           /\ manual_presence_requests' =
                manual_presence_requests \cup
                  { save_manual_request(Cardinality(manual_presence_requests) + 1,
                                        u, object_id, action, "pending",
                                        loc.lat, loc.lon, distance, fsm[u].log_id) }
           /\ IF mine # {}
              THEN /\ time_logs' = { IF r \in mine
                                     THEN [ r EXCEPT !.status = "manual_pending" ]
                                     ELSE r : r \in time_logs }
                   /\ UNCHANGED next_id
              ELSE /\ next_id <= MaxLogs
                   /\ time_logs' = time_logs \cup
                        { NewLog(next_id, u, object_id, moscow_today, NULL, NULL, NULL,
                                 "manual_pending") }
                   /\ next_id' = next_id + 1
    /\ fsm' = StateClear(u)
    /\ UNCHANGED << variant, GEO_REQUIRED, now, employees, users, shifts, admin_calls >>

\* SELECT m.* FROM manual_presence_requests m JOIN employees e ... WHERE m.id = req_id
FetchRequest(req_id) ==
    { m \in manual_presence_requests : m.id = req_id /\ m.employee_id \in DOMAIN employees }

\* approve_manual_request / reject_manual_request up to their answer or their
\* first write: the request is fetched; "Запрос не найден" if there is none,
\* "Уже обработано" if its status is not pending; otherwise the callback goes
\* on with the row it has read
ReadRequest(a, op, req_id) ==
    /\ variant = "bot"
    /\ UNCHANGED << closing, access >>
    /\ admin_calls[a] = NoCall
    /\ IF \E req \in FetchRequest(req_id) : req.status = "pending"
       THEN \E req \in FetchRequest(req_id) :
               admin_calls' = [ admin_calls EXCEPT ![a] = [ op |-> op, req |-> req ] ]
       ELSE UNCHANGED admin_calls
    /\ UNCHANGED << variant, GEO_REQUIRED, now, employees, time_logs, next_id,
                    fsm, users, shifts, manual_presence_requests >>

approve_manual_request(a, req_id) == ReadRequest(a, "approve", req_id)
reject_manual_request(a, req_id) == ReadRequest(a, "reject", req_id)

\* the row _apply_manual_time looks up for a check-out: log_id if given, else
\* the newest open row of the employee on the date of the request
ManualLogId(req) ==
    IF req.log_id # NULL THEN req.log_id
    ELSE LET open == { r \in time_logs : /\ r.employee_id = req.employee_id
                                         /\ r.date = DateOf(req.requested_at)
                                         /\ r.check_out = NULL }
         IN  IF open = {} THEN NULL
             ELSE (CHOOSE r \in open : \A q \in open : q.id <= r.id).id

\* an _apply_manual_time that stamps the instant of the approval instead of
\* the instant of the request
apply_manual_checkout_at_approval(req, status_label) ==
    LET log_id == ManualLogId(req)
        rows == { r \in time_logs : r.id = log_id }
        check_in == IF rows = {} THEN NULL ELSE (CHOOSE r \in rows : TRUE).check_in
        hours == IF check_in = NULL THEN HoursCeil(0) ELSE HoursCeil(now - check_in)
    IN  IF log_id = NULL THEN time_logs
        ELSE { IF r.id = log_id
               THEN [ r EXCEPT !.check_out = now,
                               !.check_out_lat = req.latitude,
                               !.check_out_lon = req.longitude,
                               !.hours_worked = hours,
                               !.status = status_label ]
               ELSE r : r \in time_logs }

\* _apply_manual_time for action "checkout": the table after its UPDATE
apply_manual_checkout(req, status_label) ==
    LET log_id == ManualLogId(req)
        rows == { r \in time_logs : r.id = log_id }
        check_in == IF rows = {} THEN NULL ELSE (CHOOSE r \in rows : TRUE).check_in
        hours == IF check_in = NULL THEN HoursCeil(0)
                 ELSE HoursCeil(req.requested_at - check_in)
    IN  IF log_id = NULL THEN time_logs
        ELSE { IF r.id = log_id
               THEN [ r EXCEPT !.check_out = req.requested_at,
                               !.check_out_lat = req.latitude,
                               !.check_out_lon = req.longitude,
                               !.hours_worked = hours,
                               !.status = status_label ]
               ELSE r : r \in time_logs }

\* _apply_manual_time for action "checkin": the table after its INSERT
apply_manual_checkin(req, status_label) ==
    time_logs \cup
      { NewLog(next_id, req.employee_id, req.object_id, DateOf(req.requested_at),
               req.requested_at, req.latitude, req.longitude, status_label) }

\* the id _apply_manual_time returns
AppliedLogId(req, logs) ==
    IF req.action = "checkin"
    THEN LET mine == { r \in logs : /\ r.employee_id = req.employee_id
                                    /\ r.date = DateOf(req.requested_at) }
         IN  IF mine = {} THEN NULL
             ELSE (CHOOSE r \in mine : \A q \in mine : q.id <= r.id).id
    ELSE ManualLogId(req)

\* UPDATE manual_presence_requests SET status, admin_id, processed_at
\* [, log_id = COALESCE(log_id, new)] WHERE id
ResolveRequest(req_id, status, a, log_id) ==
    { IF m.id = req_id
      THEN [ m EXCEPT !.status = status, !.admin_id = a, !.processed_at = now,
                      !.log_id = IF m.log_id # NULL THEN m.log_id ELSE log_id ]
      ELSE m : m \in manual_presence_requests }

\* approve_manual_request after its checks: _apply_manual_time with
\* status_label "manual_admin", then the request becomes approved; a callback
\* writes once, so the rows approvals insert are bounded by the callbacks in
\* flight
approve_manual_request_apply(a) ==
    /\ variant = "bot"
    /\ UNCHANGED << closing, access >>
    /\ admin_calls[a].op = "approve"
    /\ LET req == admin_calls[a].req IN
       /\ IF req.action = "checkin"
          THEN /\ time_logs' = apply_manual_checkin(req, "manual_admin")
               /\ next_id' = next_id + 1
          ELSE /\ time_logs' = apply_manual_checkout(req, "manual_admin")
               /\ UNCHANGED next_id
       /\ manual_presence_requests' =
            ResolveRequest(req.id, "approved", a, AppliedLogId(req, time_logs'))
    /\ admin_calls' = [ admin_calls EXCEPT ![a] = NoCall ]
    /\ UNCHANGED << variant, GEO_REQUIRED, now, employees, fsm, users, shifts >>

\* reject_manual_request after its checks: the request becomes rejected
reject_manual_request_apply(a) ==
    /\ variant = "bot"
    /\ UNCHANGED << closing, access >>
    /\ admin_calls[a].op = "reject"
    /\ manual_presence_requests' =
         ResolveRequest(admin_calls[a].req.id, "rejected", a, NULL)
    /\ admin_calls' = [ admin_calls EXCEPT ![a] = NoCall ]
    /\ UNCHANGED << variant, GEO_REQUIRED, now, employees, time_logs, next_id,
                    fsm, users, shifts >>

\* the request ids an admin callback can carry: those issued and one unknown
RequestIds == 1..(MaxRequests + 1)

\* check-in and check-out with geofencing required, the auto-close jobs and
\* the manual presence workflow
NextManual ==
    \/ Tick
    \/ \E u \in Users : handle_come(u)
    \/ \E u \in Users : handle_leave(u)
    \/ \E u \in Users, obj \in Objects, action \in { "checkin", "checkout" } :
         handle_object_selection(u, obj, action)
    \/ \E u \in Users, loc \in Locations : handle_location(u, loc)
    \/ auto_checkout
    \/ force_checkout_end_of_day
    \/ \E u \in Users, loc \in Locations : process_manual_photo(u, loc)
    \/ \E a \in Admins, req_id \in RequestIds : approve_manual_request(a, req_id)
    \/ \E a \in Admins, req_id \in RequestIds : reject_manual_request(a, req_id)
    \/ \E a \in Admins : approve_manual_request_apply(a)
    \/ \E a \in Admins : reject_manual_request_apply(a)

InitManual == InitBot /\ GEO_REQUIRED
SpecManual == InitManual /\ [][NextManual]_vars


\* a pending request with this id can be fetched
PendingRequest(req_id) == \E req \in FetchRequest(req_id) : req.status = "pending"

\* C23: Approve and Reject of an unknown request or of one that is not pending
\* change neither the request table nor any shift record, and a request that
\* is approved or rejected keeps its status, resolving admin and resolution
\* instant for ever.
C23_ResolvedIsTerminal ==
    [][ /\ \A a \in Admins, req_id \in RequestIds :
             (/\ ~PendingRequest(req_id)
              /\ approve_manual_request(a, req_id) \/ reject_manual_request(a, req_id))
               => UNCHANGED << manual_presence_requests, time_logs >>
        /\ \A m \in manual_presence_requests :
             m.status # "pending" =>
               /\ \E q \in manual_presence_requests' :
                     /\ q.id = m.id /\ q.status = m.status
                     /\ q.admin_id = m.admin_id /\ q.processed_at = m.processed_at
               /\ \A a \in Admins :
                     (/\ admin_calls[a].op # "none"
                      /\ admin_calls[a].req.id = m.id
                      /\ approve_manual_request_apply(a) \/ reject_manual_request_apply(a))
                       => UNCHANGED time_logs ]_vars


\* an employee has checked in and, refused at check-out as too far from the
\* site, has asked for a manual check-out; the request is pending
InitApprove ==
    /\ variant = "bot"
    /\ GEO_REQUIRED = TRUE
    /\ employees = [ u \in Users |->
                       [ is_admin |-> FALSE, is_active |-> TRUE, is_approved |-> TRUE ] ]
    /\ users = [ u \in Users |-> [ role |-> "employee", approved |-> TRUE ] ]
    /\ fsm = [ u \in Users |-> NoData ]
    /\ shifts = {}
    /\ admin_calls = [ a \in Admins |-> NoCall ]
    /\ closing = NoClose
    /\ access_requests = {}
    /\ requesting = {}
    /\ callback_query = NoCallback
    /\ next_id = 2
    /\ \E u \in Users, obj \in Objects, check_in \in Instants, requested_at \in Instants,
          near \in Locations, far \in Locations :
         /\ check_in <= requested_at
         /\ DateOf(check_in) = DateOf(requested_at)
         /\ ~Suspicious(near) /\ ~TooFar(LocDistance(near, obj))
         /\ TooFar(LocDistance(far, obj))
         /\ now = requested_at
         /\ time_logs =
              { [ NewLog(1, u, obj, DateOf(check_in), check_in, near.lat, near.lon,
                         CheckinStatus(check_in))
                    EXCEPT !.status = "manual_pending" ] }
         /\ manual_presence_requests =
              { save_manual_request(1, u, obj, "checkout", "pending", far.lat, far.lon,
                                    LocDistance(far, obj), 1) }

\* the clock, the auto-close jobs and the admins' decisions
NextApprove ==
    \/ Tick
    \/ auto_checkout
    \/ force_checkout_end_of_day
    \/ \E a \in Admins, req_id \in RequestIds : approve_manual_request(a, req_id)
    \/ \E a \in Admins, req_id \in RequestIds : reject_manual_request(a, req_id)
    \/ \E a \in Admins : approve_manual_request_apply(a)
    \/ \E a \in Admins : reject_manual_request_apply(a)

SpecApprove == InitApprove /\ [][NextApprove]_vars

\* the open shift of the employee that a check-out request is about
OpenShiftsOf(req) ==
    { r \in time_logs : /\ r.id = req.log_id
                        /\ r.employee_id = req.employee_id
                        /\ r.check_in # NULL /\ r.check_out = NULL }

\* admin a's callback writes the approval of a request that is still pending
ApprovesPending(a, action) ==
    /\ admin_calls[a].op = "approve"
    /\ admin_calls[a].req.action = action
    /\ PendingRequest(admin_calls[a].req.id)
    /\ approve_manual_request_apply(a)

RecordsOf(req, logs) ==
    IF req.log_id # NULL
    THEN { r \in logs : r.id = req.log_id }
    ELSE { r \in logs : r.employee_id = req.employee_id /\ r.date = DateOf(req.requested_at) }

\* admin a's callback writes the rejection of a request that is still pending
RejectsPending(a) ==
    /\ admin_calls[a].op = "reject"
    /\ PendingRequest(admin_calls[a].req.id)
    /\ reject_manual_request_apply(a)

\* C25: rejecting a pending manual request marks it rejected and takes the
\* shift record it is about out of manual_pending, back to the state it had
\* before the request (no check-in for a pending check-in, checked in and open
\* for a pending check-out), so that the employee can retry.
C25_RejectReverts ==
    [][ \A a \in Admins :
          RejectsPending(a) =>
            LET req == admin_calls[a].req IN
            /\ \E m \in manual_presence_requests' : m.id = req.id /\ m.status = "rejected"
            /\ \A r \in RecordsOf(req, time_logs') :
                 /\ r.status # "manual_pending"
                 /\ req.action = "checkin" => r.check_in = NULL
                 /\ req.action = "checkout" => (r.check_in # NULL /\ r.check_out = NULL) ]_vars


\* the pending requests that refer to shift record r
PendingRequestsOf(r) ==
    { m \in manual_presence_requests :
        /\ m.status = "pending"
        /\ r \in RecordsOf(m, time_logs) }

\* C26: in every reachable state a shift record whose status is
\* manual_pending is referenced by exactly one manual request with status
\* pending.
C26_ManualPendingHasOneRequest ==
    \A r \in time_logs :
       r.status = "manual_pending" => Cardinality(PendingRequestsOf(r)) = 1

\* C27: in every reachable state the status of every shift record is one of
\* work, late, sick, manual_pending, manual_confirmed; no operation, the
\* approval of a manual request included, writes another value.
C27_StatusDomain ==
    /\ \A r \in time_logs :
         r.status \in { "work", "late", "sick", "manual_pending", "manual_confirmed" }
    /\ \A s \in shifts :
         s.status \in { "work", "late", "sick", "manual_pending", "manual_confirmed" }


-----------------------------------------------------------------------------
(* The timesheet *)

\* the dates of the month the timesheet is built for
MonthDates == Dates

\* the cells of a timesheet row
Blank == [ kind |-> "blank", hours |-> 0 ]
SickMark == [ kind |-> "sick", hours |-> 0 ]
HoursCell(h) == [ kind |-> "hours", hours |-> h ]

RECURSIVE SumOver(_, _)
\* the sum of f over the set S
SumOver(S, f) ==
    IF S = {} THEN 0
    ELSE LET x == CHOOSE y \in S : TRUE IN f[x] + SumOver(S \ { x }, f)

\* bot: the rows _build_workbook fetches for the month
month_logs ==
    { r \in time_logs : r.employee_id \in DOMAIN employees /\ r.date \in MonthDates }

\* ORDER BY e.full_name, tl.date: the rows by employee, then by date; rows of
\* one employee and date come in any order
LogOrders ==
    { logs \in Orders(month_logs) :
        \A i, j \in 1..Len(logs) :
           i < j => \/ logs[i].employee_id < logs[j].employee_id
                    \/ /\ logs[i].employee_id = logs[j].employee_id
                       /\ logs[i].date <= logs[j].date }

RECURSIVE logs_by_employee(_, _)
\* logs_by_employee after the loop of _build_workbook has taken the first n
\* rows: a sick row replaces the entry of its day, a row with hours adds its
\* hours to an entry with hours and replaces a sick entry
logs_by_employee(logs, n) ==
    IF n = 0 THEN [ k \in (DOMAIN employees) \X MonthDates |-> Blank ]
    ELSE LET emp_map == logs_by_employee(logs, n - 1)
             log == logs[n]
             k == << log.employee_id, log.date >>
             hours == IF log.hours_worked = NULL THEN 0 ELSE log.hours_worked
         IN  IF log.status = "sick"
             THEN [ emp_map EXCEPT ![k] = SickMark ]
             ELSE [ emp_map EXCEPT ![k] =
                      HoursCell(IF emp_map[k].kind = "hours"
                                THEN hours + emp_map[k].hours ELSE hours) ]

\* a _build_workbook whose employee query has no WHERE clause: one row per
\* employee of the table
build_workbook_all_employees(logs) ==
    LET emp_days == logs_by_employee(logs, Len(logs)) IN
    [ emp \in DOMAIN employees |->
        LET cells == [ d \in MonthDates |-> emp_days[<< emp, d >>] ]
            worked == { d \in MonthDates : cells[d].kind = "hours" }
        IN  [ cells |-> cells,
              total_hours |-> SumOver(worked, [ d \in worked |-> cells[d].hours ]),
              days_worked |-> Cardinality(worked) ] ]

\* _build_workbook, sheet "Общий табель": one row per approved, active
\* employee with the cells of the days, "Итого часов" and "Дней"
build_workbook(logs) ==
    LET emp_days == logs_by_employee(logs, Len(logs)) IN
    [ emp \in { e \in DOMAIN employees : employees[e].is_approved /\ employees[e].is_active } |->
        LET cells == [ d \in MonthDates |-> emp_days[<< emp, d >>] ]
            worked == { d \in MonthDates : cells[d].kind = "hours" }
        IN  [ cells |-> cells,
              total_hours |-> SumOver(worked, [ d \in worked |-> cells[d].hours ]),
              days_worked |-> Cardinality(worked) ] ]

\* app: the rows db_month_shifts returns for the month
db_month_shifts ==
    { s \in shifts : /\ s.tg_id \in DOMAIN users /\ users[s.tg_id].approved
                     /\ s.day \in MonthDates }

\* ORDER BY u.fio NULLS LAST, s.day
ShiftOrders ==
    { sh \in Orders(db_month_shifts) :
        \A i, j \in 1..Len(sh) :
           i < j => \/ sh[i].tg_id < sh[j].tg_id
                    \/ /\ sh[i].tg_id = sh[j].tg_id
                       /\ sh[i].day <= sh[j].day }

RECURSIVE by_key(_, _)
\* by_key after the first n rows: by_key[(tg_id, day)] = s, the later row of a
\* key replaces the earlier one
by_key(sh, n) ==
    IF n = 0 THEN [ k \in (DOMAIN users) \X MonthDates |-> {} ]
    ELSE [ by_key(sh, n - 1) EXCEPT ![<< sh[n].tg_id, sh[n].day >>] = { sh[n] } ]

\* the cell build_timesheet_xlsx writes for the row found under a key
ShiftCell(found) ==
    IF found = {} THEN Blank
    ELSE LET s == CHOOSE x \in found : TRUE
             h == IF s.hours # NULL THEN s.hours ELSE 0
         IN  IF s.status = "sick" THEN SickMark
             ELSE IF h > 0 THEN HoursCell(h)
             ELSE Blank

\* build_timesheet_xlsx: one row per approved user with the cells of the
\* days, "Итого часов" and "Отраб. дней"
build_timesheet_xlsx(sh) ==
    LET keyed == by_key(sh, Len(sh)) IN
    [ tg_id \in { u \in DOMAIN users : users[u].approved } |->
        LET cells == [ d \in MonthDates |-> ShiftCell(keyed[<< tg_id, d >>]) ]
            worked == { d \in MonthDates : cells[d].kind = "hours" }
        IN  [ cells |-> cells,
              total_hours |-> SumOver(worked, [ d \in worked |-> cells[d].hours ]),
              days_worked |-> Cardinality(worked) ] ]

\* the timesheets the program can build in the current state, one for each
\* order in which the store can return the records
Timesheets ==
    IF variant = "bot" THEN { build_workbook(logs) : logs \in LogOrders }
    ELSE { build_timesheet_xlsx(sh) : sh \in ShiftOrders }

\* the shift records of employee e in the month, each with its status and its
\* hours (NULL while the shift is not closed)
RecordsIn(e, dates) ==
    IF variant = "bot"
    THEN { [ id |-> r.id, date |-> r.date, status |-> r.status,
             hours |-> IF r.check_out # NULL THEN r.hours_worked ELSE NULL ] :
             r \in { x \in time_logs : x.employee_id = e /\ x.date \in dates } }
    ELSE { [ id |-> s.day, date |-> s.day, status |-> s.status, hours |-> s.hours ] :
             s \in { x \in shifts : x.tg_id = e /\ x.day \in dates } }

\* the records that count as worked: not sick, hours present
WorkedRecords(e, dates) ==
    { r \in RecordsIn(e, dates) : r.status # "sick" /\ r.hours # NULL }

\* the records of e that carry hours
RecordsWithHours(e, dates) == { r \in RecordsIn(e, dates) : r.hours # NULL }

\* C28: in every timesheet the total of hours of an employee's row is the sum
\* of the hours of the employee's records of the month, and the days-worked
\* count is the number of the employee's records that are not sick and have
\* hours: an open shift is not counted, a closed shift with 0 hours is.
C28_AggregationConsistency ==
    \A sheet \in Timesheets : \A e \in DOMAIN sheet :
       /\ sheet[e].total_hours =
            SumOver(RecordsWithHours(e, MonthDates),
                    [ r \in RecordsWithHours(e, MonthDates) |-> r.hours ])
       /\ sheet[e].days_worked = Cardinality(WorkedRecords(e, MonthDates))

\* C29: the cell of an employee and day is the sick marker when the day's
\* record is sick, the hours when the record has hours, and blank otherwise
\* (no record, or a shift still open).
C29_CellContent ==
    \A sheet \in Timesheets : \A e \in DOMAIN sheet, d \in MonthDates :
       LET recs == RecordsIn(e, { d }) IN
       /\ recs = {} => sheet[e].cells[d] = Blank
       /\ \A r \in recs :
            recs = { r } =>
              sheet[e].cells[d] = IF r.status = "sick" THEN SickMark
                                  ELSE IF r.hours # NULL THEN HoursCell(r.hours)
                                  ELSE Blank

\* C30: the timesheet is a function of the set of records: every order in
\* which the store returns them gives the same table, and the hours of
\* several records of one employee and day are summed.
C30_OrderIndependent ==
    /\ \A s1, s2 \in Timesheets : s1 = s2
    /\ \A sheet \in Timesheets : \A e \in DOMAIN sheet, d \in MonthDates :
         LET recs == RecordsIn(e, { d }) IN
         (Cardinality(recs) > 1 /\ recs = WorkedRecords(e, { d })) =>
            sheet[e].cells[d] = HoursCell(SumOver(recs, [ r \in recs |-> r.hours ]))


-----------------------------------------------------------------------------
(* The per-site sheets of the timesheet *)

RECURSIVE object_logs(_, _)
\* object_logs after the loop of _build_workbook has taken the first n rows:
\* a row that is not sick and has an object adds, to the entry of its object,
\* employee and day, the value of hours the loop holds at that point, which is
\* the row's hours plus the hours already summed for the employee's day
object_logs(logs, n) ==
    IF n = 0 THEN [ k \in Objects \X (DOMAIN employees) \X MonthDates |-> Blank ]
    ELSE LET obj_map == object_logs(logs, n - 1)
             emp_map == logs_by_employee(logs, n - 1)
             log == logs[n]
             own == IF log.hours_worked = NULL THEN 0 ELSE log.hours_worked
             existing == emp_map[<< log.employee_id, log.date >>]
             hours == IF existing.kind = "hours" THEN own + existing.hours ELSE own
             k == << log.object_id, log.employee_id, log.date >>
         IN  IF log.status = "sick" \/ log.object_id = NULL THEN obj_map
             ELSE [ obj_map EXCEPT ![k] = HoursCell(obj_map[k].hours + hours) ]

\* _build_workbook(include_objects = True), the sheet of each object: one row
\* for each approved, active employee that has an entry for the object
object_sheets(logs) ==
    LET obj_logs == object_logs(logs, Len(logs)) IN
    [ obj \in Objects |->
        [ emp \in { e \in DOMAIN employees :
                      /\ employees[e].is_approved /\ employees[e].is_active
                      /\ \E d \in MonthDates : obj_logs[<< obj, e, d >>].kind = "hours" } |->
            LET cells == [ d \in MonthDates |-> obj_logs[<< obj, emp, d >>] ]
                worked == { d \in MonthDates : cells[d].kind = "hours" }
            IN  [ cells |-> cells,
                  total_hours |-> SumOver(worked, [ d \in worked |-> cells[d].hours ]),
                  days_worked |-> Cardinality(worked) ] ] ]

\* the records of employee e at site obj on the given dates that carry hours
SiteRecords(e, obj, dates) ==
    { r \in time_logs : /\ r.employee_id = e /\ r.object_id = obj /\ r.date \in dates
                        /\ r.status # "sick" /\ r.check_out # NULL }

\* C31: in the per-site sheets the hours of every record with a site are
\* counted once, in the sheet of its site and the cell of its day: a cell is
\* the sum of the hours of the employee's records of that day and site, and
\* an employee without hours at a site has no row in the sheet of that site.
C31_PerSitePartition ==
    variant = "bot" =>
      \A logs \in LogOrders : \A obj \in Objects :
         \A e \in { x \in DOMAIN employees :
                      employees[x].is_approved /\ employees[x].is_active } :
            LET sheet == object_sheets(logs)[obj] IN
            /\ e \in DOMAIN sheet <=> SiteRecords(e, obj, MonthDates) # {}
            /\ e \in DOMAIN sheet =>
                 \A d \in MonthDates :
                    LET recs == SiteRecords(e, obj, { d }) IN
                    sheet[e].cells[d] =
                      IF recs = {} THEN Blank
                      ELSE HoursCell(SumOver(recs, [ r \in recs |-> r.hours_worked ]))


\* the attendance effect of manual request m: the check-in rows written for
\* it by an approval
ApprovedCheckIns(m) ==
    { r \in time_logs : /\ r.employee_id = m.employee_id
                        /\ r.status = "manual_admin"
                        /\ r.check_in = m.requested_at }

\* admin a's callback has read the request as pending and writes its approval
\* after another approval of the same request has been written
ApprovesApproved(a) ==
    /\ admin_calls[a].op = "approve"
    /\ \E m \in manual_presence_requests :
          m.id = admin_calls[a].req.id /\ m.status = "approved"
    /\ approve_manual_request_apply(a)

\* C32: when two administrators approve a manual request concurrently, both
\* having read it as pending, its effect is applied once: the second approval
\* writes no check-in and no check-out and leaves the request approved by the
\* admin of the first.
C32_ApprovedOnce ==
    /\ [][ \A a \in Admins :
             ApprovesApproved(a) => UNCHANGED << time_logs, manual_presence_requests >> ]_vars
    /\ [](\A m \in manual_presence_requests :
             m.action = "checkin" => Cardinality(ApprovedCheckIns(m)) <= 1)


-----------------------------------------------------------------------------
(* bot: the hours each close path stores, with datetimes to the sub-second *)

\* the sub-second part of a datetime counts units of 1/SubSecond s
SubSecond == 2

\* the datetimes a close is examined with
StampSeconds == { WORK_START_HOUR * Hour, 13 * Hour, AUTO_CHECKOUT_AT, FORCE_CHECKOUT_AT }
DateTimes == { DateTime(s, us) : s \in StampSeconds, us \in 0..(SubSecond - 1) }

\* the timedelta b - a, in units of 1/SubSecond s
Elapsed(a, b) == (b.s - a.s) * SubSecond + (b.us - a.us)

\* timedelta.total_seconds() / 3600, rounded up by math.ceil, then
\* min(max(0, .), MAX_WORK_HOURS), stored times Scale
total_seconds_hours(a, b) ==
    Scale * Min(Max(0, Ceil(Elapsed(a, b), Hour * SubSecond)), MAX_WORK_HOURS)

\* timedelta.seconds of b - a: the whole seconds of the normalised timedelta,
\* its days and its microseconds dropped
timedelta_seconds(a, b) == (Elapsed(a, b) % (Day * SubSecond)) \div SubSecond

\* process_checkout_manual and process_checkout_simple: the user's check-out
checkout_hours(check_in, at) == total_seconds_hours(check_in, at)

\* _apply_manual_time for action "checkout": an approved manual check-out
manual_time_hours(check_in, requested_at) == total_seconds_hours(check_in, requested_at)

\* auto_checkout: (now - check_in).seconds / 3600
auto_checkout_hours(check_in, at) == HoursCeil(timedelta_seconds(check_in, at))

\* force_checkout_end_of_day: (cutoff - check_in).total_seconds() / 3600
force_checkout_hours(check_in, cutoff) == total_seconds_hours(check_in, cutoff)

\* a shift checked in at one datetime is to be closed at a later one
InitHours ==
    /\ Init
    /\ variant = "bot"

\* the examined shift and its close instant are chosen
choose_close ==
    /\ closing = NoClose
    /\ \E check_in \in DateTimes, at \in DateTimes :
         /\ Elapsed(check_in, at) > 0
         /\ closing' = [ check_in |-> check_in, at |-> at, path |-> "chosen", hours |-> NULL ]
    /\ UNCHANGED << variant, GEO_REQUIRED, now, employees, time_logs, next_id,
                    fsm, users, shifts, manual, access >>

\* the close written by one path
Close(path, hours) ==
    /\ closing.path = "chosen"
    /\ closing' = [ closing EXCEPT !.path = path, !.hours = hours ]
    /\ UNCHANGED << variant, GEO_REQUIRED, now, employees, time_logs, next_id,
                    fsm, users, shifts, manual, access >>

process_checkout_manual_close ==
    Close("process_checkout_manual", checkout_hours(closing.check_in, closing.at))

process_checkout_simple_close ==
    Close("process_checkout_simple", checkout_hours(closing.check_in, closing.at))

apply_manual_time_close ==
    Close("_apply_manual_time", manual_time_hours(closing.check_in, closing.at))

\* the 20:00 job closes at the instant it runs
auto_checkout_close ==
    /\ DueAt(AUTO_CHECKOUT_AT, closing.at.s)
    /\ Close("auto_checkout", auto_checkout_hours(closing.check_in, closing.at))

\* the 23:59 job closes at its cutoff, 23:59:00
force_checkout_close ==
    /\ closing.at = DateTime(DateOf(closing.at.s) * Day + FORCE_CHECKOUT_AT, 0)
    /\ Close("force_checkout_end_of_day", force_checkout_hours(closing.check_in, closing.at))

NextHours ==
    \/ choose_close
    \/ process_checkout_manual_close
    \/ process_checkout_simple_close
    \/ apply_manual_time_close
    \/ auto_checkout_close
    \/ force_checkout_close

SpecHours == InitHours /\ [][NextHours]_vars

\* C33: every close path stores the same function of the check-in and the
\* close instant: the hours written by the user's check-out without geofence,
\* by an approved manual check-out, by the 20:00 auto check-out and by the
\* 23:59 forced close are those the user's check-out with location stores for
\* the same two instants.
C33_SameHoursOnEveryPath ==
    closing.hours # NULL => closing.hours = checkout_hours(closing.check_in, closing.at)


-----------------------------------------------------------------------------
(* bot: check-in and check-out at an object without coordinates *)

\* the location messages, and one whose fix is coarser than
\* LOCATION_MAX_ACCURACY and the radius of the object and finer than
\* LOCATION_RADIUS
SiteLocations == Locations \cup { Loc(ObjLat(1) + Scale, 5 * Scale, 0) }

\* geofencing is required and the employee may choose any stored object
NextSites ==
    \/ Tick
    \/ \E u \in Users : handle_come(u)
    \/ \E u \in Users : handle_leave(u)
    \/ \E u \in Users, obj \in AllObjects, action \in { "checkin", "checkout" } :
         handle_object_selection(u, obj, action)
    \/ \E u \in Users, loc \in SiteLocations : handle_location(u, loc)
    \/ auto_checkout
    \/ force_checkout_end_of_day

InitSites == InitBot /\ GEO_REQUIRED

SpecSites == InitSites /\ [][NextSites]_vars

\* u has chosen a site without coordinates and is about to send a location
\* for a check-in, or for the check-out of a shift that is open
AtUnlocatedSite(u) ==
    /\ fsm[u].selected_object_id \in UnlocatedObjects
    /\ \/ fsm[u].action = "checkin" /\ next_id <= MaxLogs
       \/ /\ fsm[u].action = "checkout"
          /\ \E r \in time_logs : r.id = fsm[u].log_id /\ r.check_out = NULL

\* the location message loc of u is accepted: handling it writes the
\* check-in or the check-out
Accepted(u, loc) == ENABLED (handle_location(u, loc) /\ time_logs' # time_logs)

\* C34: a location submission for a site without coordinates is accepted,
\* that is the check-in or check-out is written, whatever the position, the
\* accuracy and the age of the fix.
C34_UnlocatedSiteAccepts ==
    \A u \in Users, loc \in SiteLocations : AtUnlocatedSite(u) => Accepted(u, loc)

\* handling the location message loc of u writes a check-in or a check-out
Written(u, loc) ==
    ENABLED /\ handle_location(u, loc) \/ got_location(u, loc)
            /\ time_logs' # time_logs \/ shifts' # shifts

\* C35: with geofencing required, a location submission whose fix is older
\* than the maximum age is refused as stale: no check-in and no check-out is
\* written for it, also when the point lies within the radius of the site.
C35_StaleNeverWritten ==
    \A u \in Users, loc \in Locations :
       (GEO_REQUIRED /\ loc.age > LOCATION_MAX_AGE_SECONDS) => ~Written(u, loc)


\* u is about to send a location for a check-in, or for the check-out of a
\* shift that is open, at a site with coordinates
AtLocatedSite(u) ==
    /\ fsm[u].selected_object_id \in Objects
    /\ \/ fsm[u].action = "checkin" /\ next_id <= MaxLogs
       \/ /\ fsm[u].action = "checkout"
          /\ \E r \in time_logs : r.id = fsm[u].log_id /\ r.check_out = NULL

\* the accuracy of a fix is beyond what site o admits:
\* max(radius of the site, LOCATION_MAX_ACCURACY)
Imprecise(loc, o) == loc.accuracy > Max(ObjRadiusM(o), LOCATION_MAX_ACCURACY)

\* C36: with geofencing required, a location submission whose accuracy
\* exceeds max(radius of the target site, LOCATION_MAX_ACCURACY) is refused
\* as imprecise and nothing is written for it; a fresh fix within the radius
\* whose accuracy is at most that bound is not refused.
C36_ImpreciseNeverWritten ==
    \A u \in Users, loc \in SiteLocations :
       (GEO_REQUIRED /\ variant = "bot" /\ AtLocatedSite(u)) =>
         \A o \in TargetObjects(u, loc) :
            /\ Imprecise(loc, o) => ~Accepted(u, loc)
            /\ (/\ ~Imprecise(loc, o)
                /\ loc.age <= LOCATION_MAX_AGE_SECONDS
                /\ DistanceTo(loc, o) <= ObjRadiusM(o)) => Accepted(u, loc)


-----------------------------------------------------------------------------
(* Access: access requests, approval, rejection and deactivation *)

\* Config.ADMIN_IDS / ADMIN_IDS: the main administrator
ADMIN_IDS == { 101 }
\* a user who has asked for no access yet
Applicants == { 2 }
\* the users whose messages and callback queries reach the program
Senders == Users \cup Applicants \cup ADMIN_IDS
\* access_requests gets at most MaxAccessRequests rows
MaxAccessRequests == 2

\* the store as init_db / db_init and /start leave it: the main administrator
\* and the employees of Users have access; app: the applicant has a row of
\* users that is not approved
InitAccess ==
    /\ variant \in { "bot", "app" }
    /\ GEO_REQUIRED = FALSE
    /\ now = DayInstants[1]
    /\ employees = [ p \in Users \cup ADMIN_IDS |->
                       [ is_admin |-> p \in ADMIN_IDS, is_active |-> TRUE,
                         is_approved |-> TRUE ] ]
    /\ time_logs = {}
    /\ next_id = 1
    /\ fsm = [ u \in Users |-> NoData ]
    /\ users = [ p \in Senders |->
                   [ role |-> IF p \in ADMIN_IDS THEN "admin" ELSE "employee",
                     approved |-> p \notin Applicants ] ]
    /\ shifts = {}
    /\ manual_presence_requests = {}
    /\ admin_calls = [ a \in Admins |-> NoCall ]
    /\ closing = NoClose
    /\ access_requests = {}
    /\ requesting = {}
    /\ callback_query = NoCallback

\* the arguments a callback of kind op carries: bot approve_<id> and
\* reject_<id> name an access request, admin_emp_delete_<id> an employee;
\* app approve:<tg_id> and reject:<tg_id> name a user
CallbackArgs(op) ==
    IF variant = "bot" /\ op \in { "approve", "reject" }
    THEN 1..MaxAccessRequests
    ELSE Users \cup Applicants

CallbackOps ==
    IF variant = "bot" THEN { "approve", "reject", "admin_emp_delete" }
    ELSE { "approve", "reject" }

\* a callback query of user p arrives
receive_callback(p, op, arg) ==
    /\ callback_query = NoCallback
    /\ op \in CallbackOps
    /\ arg \in CallbackArgs(op)
    /\ callback_query' = [ from_user |-> p, op |-> op, arg |-> arg ]
    /\ UNCHANGED << variant, GEO_REQUIRED, now, employees, time_logs, next_id,
                    fsm, users, shifts, manual, closing, access_requests, requesting >>

\* SELECT status FROM access_requests WHERE telegram_id = p ORDER BY id DESC LIMIT 1
LatestRequestStatus(p) ==
    LET own == { r \in access_requests : r.telegram_id = p } IN
    IF own = {} THEN "none"
    ELSE (CHOOSE r \in own : \A q \in own : q.id <= r.id).status

\* bot: "Запросить доступ"
handle_request_access(p) ==
    /\ variant = "bot"
    /\ IF LatestRequestStatus(p) = "pending"
       THEN UNCHANGED requesting
       ELSE requesting' = requesting \cup { p }
    /\ UNCHANGED << variant, GEO_REQUIRED, now, employees, time_logs, next_id,
                    fsm, users, shifts, manual, closing, access_requests, callback_query >>

\* bot: handle_text with action request_access: the request is stored
process_access_request(p) ==
    /\ variant = "bot"
    /\ p \in requesting
    /\ Cardinality(access_requests) < MaxAccessRequests
    /\ access_requests' = access_requests \cup
         { [ id |-> Cardinality(access_requests) + 1, telegram_id |-> p,
             status |-> "pending" ] }
    /\ requesting' = requesting \ { p }
    /\ UNCHANGED << variant, GEO_REQUIRED, now, employees, time_logs, next_id,
                    fsm, users, shifts, manual, closing, callback_query >>

\* INSERT INTO employees (telegram_id, full_name, position, is_approved)
\* VALUES (.., TRUE) ON CONFLICT (telegram_id) DO UPDATE SET is_approved = TRUE
upsert_approved(emps, p) ==
    [ q \in DOMAIN emps \cup { p } |->
        IF q # p THEN emps[q]
        ELSE IF p \in DOMAIN emps THEN [ emps[p] EXCEPT !.is_approved = TRUE ]
        ELSE [ is_admin |-> FALSE, is_active |-> TRUE, is_approved |-> TRUE ] ]

\* bot: handle_callback for approve_<id>: handle_approval
handle_approval ==
    /\ variant = "bot"
    /\ callback_query.op = "approve"
    /\ LET found == { r \in access_requests : r.id = callback_query.arg } IN
       IF found = {}
       THEN UNCHANGED << access_requests, employees >>
       ELSE LET req == CHOOSE r \in found : TRUE IN
            /\ access_requests' = (access_requests \ { req }) \cup
                                    { [ req EXCEPT !.status = "approved" ] }
            /\ employees' = upsert_approved(employees, req.telegram_id)
    /\ callback_query' = NoCallback
    /\ UNCHANGED << variant, GEO_REQUIRED, now, time_logs, next_id,
                    fsm, users, shifts, manual, closing, requesting >>

\* bot: handle_callback for reject_<id>: handle_rejection
handle_rejection ==
    /\ variant = "bot"
    /\ callback_query.op = "reject"
    /\ access_requests' =
         { IF r.id = callback_query.arg THEN [ r EXCEPT !.status = "rejected" ] ELSE r :
             r \in access_requests }
    /\ callback_query' = NoCallback
    /\ UNCHANGED << variant, GEO_REQUIRED, now, employees, time_logs, next_id,
                    fsm, users, shifts, manual, closing, requesting >>

\* bot: handle_callback for admin_emp_delete_<id>: the sender must pass
\* check_access(need_admin); delete_employee deactivates the employee unless
\* it is the main administrator
delete_employee ==
    /\ variant = "bot"
    /\ callback_query.op = "admin_emp_delete"
    /\ LET emp_id == callback_query.arg IN
       IF /\ check_access(callback_query.from_user, TRUE)
          /\ emp_id \in DOMAIN employees
          /\ emp_id \notin ADMIN_IDS
       THEN employees' = [ employees EXCEPT ![emp_id].is_active = FALSE,
                                            ![emp_id].is_approved = FALSE ]
       ELSE UNCHANGED employees
    /\ callback_query' = NoCallback
    /\ UNCHANGED << variant, GEO_REQUIRED, now, time_logs, next_id,
                    fsm, users, shifts, manual, closing, access_requests, requesting >>

\* app: db_user_set_approved(tg_id, approved)
db_user_set_approved(us, tg_id, approved) ==
    IF tg_id \in DOMAIN us THEN [ us EXCEPT ![tg_id].approved = approved ] ELSE us

\* app: callback approve:<tg_id>
cb_approve ==
    /\ variant = "app"
    /\ callback_query.op = "approve"
    /\ IF callback_query.from_user \notin ADMIN_IDS
       THEN UNCHANGED users
       ELSE users' = db_user_set_approved(users, callback_query.arg, TRUE)
    /\ callback_query' = NoCallback
    /\ UNCHANGED << variant, GEO_REQUIRED, now, employees, time_logs, next_id,
                    fsm, shifts, manual, closing, access_requests, requesting >>

\* app: callback reject:<tg_id>
cb_reject ==
    /\ variant = "app"
    /\ callback_query.op = "reject"
    /\ IF callback_query.from_user \notin ADMIN_IDS
       THEN UNCHANGED users
       ELSE users' = db_user_set_approved(users, callback_query.arg, FALSE)
    /\ callback_query' = NoCallback
    /\ UNCHANGED << variant, GEO_REQUIRED, now, employees, time_logs, next_id,
                    fsm, shifts, manual, closing, access_requests, requesting >>

\* access is requested, given and taken away
NextAccess ==
    \/ \E p \in Senders, op \in CallbackOps : \E arg \in CallbackArgs(op) :
         receive_callback(p, op, arg)
    \/ \E p \in Applicants : handle_request_access(p)
    \/ \E p \in Applicants : process_access_request(p)
    \/ handle_approval
    \/ handle_rejection
    \/ delete_employee
    \/ cb_approve
    \/ cb_reject

SpecAccess == InitAccess /\ [][NextAccess]_vars

\* the location an employee sends from within the radius of object 1
NearLocation == Loc(ObjLat(1) + Scale, 50, 0)

\* the callbacks by which an administrator takes access away from an
\* employee, and the app's callback that gives it back
RevokeOps ==
    IF variant = "bot" THEN { "admin_emp_delete" } ELSE { "reject", "approve" }

\* the employees work while an administrator takes their access away
NextRevoke ==
    \/ Tick
    \/ \E u \in Users : handle_come(u)
    \/ \E u \in Users : handle_leave(u)
    \/ \E u \in Users : handle_sick_btn(u)
    \/ \E u \in Users : handle_callback_sick(u, "sick_confirm")
    \/ \E u \in Users : process_sick_reason(u)
    \/ \E u \in Users, obj \in Objects, action \in { "checkin", "checkout" } :
         handle_object_selection(u, obj, action)
    \/ \E u \in Users : handle_location(u, NearLocation)
    \/ \E u \in Users : arrived(u)
    \/ \E u \in Users : left(u)
    \/ \E u \in Users : sick(u)
    \/ \E u \in Users : got_location(u, NearLocation)
    \/ \E a \in ADMIN_IDS, op \in RevokeOps, u \in Users : receive_callback(a, op, u)
    \/ delete_employee
    \/ cb_approve
    \/ cb_reject

SpecRevoke == InitAccess /\ [][NextRevoke]_vars


\* the employees check in and out while an administrator takes their access
\* away, and the timesheet is built
NextSheet ==
    \/ Tick
    \/ \E u \in Users : handle_come(u)
    \/ \E u \in Users : handle_leave(u)
    \/ \E u \in Users, obj \in Objects, action \in { "checkin", "checkout" } :
         handle_object_selection(u, obj, action)
    \/ \E u \in Users : arrived(u)
    \/ \E u \in Users : left(u)
    \/ \E a \in ADMIN_IDS, op \in RevokeOps, u \in Users : receive_callback(a, op, u)
    \/ delete_employee
    \/ cb_approve
    \/ cb_reject

SpecSheet == InitAccess /\ [][NextSheet]_vars

\* e has access: bot, approved and active; app, approved
HasAccess(e) ==
    IF variant = "bot"
    THEN e \in DOMAIN employees /\ employees[e].is_approved /\ employees[e].is_active
    ELSE e \in DOMAIN users /\ users[e].approved

\* the rows of a query result that belong to employees with access
OfAccess(rows) ==
    SelectSeq(rows, LAMBDA r : HasAccess(IF variant = "bot" THEN r.employee_id ELSE r.tg_id))

Approved(p) ==
    IF variant = "bot" THEN p \in DOMAIN employees /\ employees[p].is_approved
    ELSE p \in DOMAIN users /\ users[p].approved

\* p is an approved administrator
ApprovedAdmin(p) ==
    IF variant = "bot" THEN check_access(p, TRUE)
    ELSE p \in ADMIN_IDS /\ p \in DOMAIN users /\ users[p].approved

\* C38: the approved flag of a user turns from false to true only in the
\* handling of a callback sent by an approved administrator, and the handling
\* of an approve callback sent by anyone else changes no employee, no user
\* and no access request.
C38_ApprovedByAdminOnly ==
    [][ /\ (\E p \in Senders : ~Approved(p) /\ Approved(p)')
           => ApprovedAdmin(callback_query.from_user)
        /\ (/\ callback_query.op = "approve"
            /\ ~ApprovedAdmin(callback_query.from_user)
            /\ callback_query' = NoCallback)
           => UNCHANGED << employees, users, access_requests >> ]_vars


\* the shift records stored for user u
StoredRecords(u) ==
    IF variant = "bot" THEN { r \in time_logs : r.employee_id = u }
    ELSE { s \in shifts : s.tg_id = u }

\* C39: a step that creates or modifies a shift record of a user is taken
\* while the user is approved and active: a check-in, check-out or sick mark
\* that the user began with access and completes after the access was taken
\* away writes nothing.
C39_NoWriteWithoutAccess ==
    [][ \A u \in Users : StoredRecords(u)' # StoredRecords(u) => HasAccess(u) ]_vars

====
